---- MODULE Spec2Model ----
(***************************************************************************)
(* A model of the three analytical engines of Coding_Buddy:                *)
(*   - CodeAnalyzer            (src/src/code_analyzer.py)                  *)
(*   - RecommendationEngine    (src/src/recommendation_engine.py)          *)
(*   - ProgressTracker / LearningAnalytics                                 *)
(*                             (src/src/progress_tracker.py,               *)
(*                              src/src/enhanced_tracker.py)               *)
(*                                                                         *)
(* Source text is modelled as a sequence of lines.  A line is a statement  *)
(* of a small Python vocabulary (its text is kept character by character,  *)
(* so that the substring and regular-expression signatures of the analyzer *)
(* are computed, not assumed) at an indentation level.  The syntax tree is *)
(* the one Python's indentation rules give.                                *)
(***************************************************************************)
EXTENDS Integers, Sequences, FiniteSets, TLC

VARIABLES
    analyzer,      \* the CodeAnalyzer instance: its three signature tables
    code,          \* argument of the last analyze_code call
    language,      \* argument of the last analyze_code call
    analysis,      \* the dict returned by the last analyze_code call
    pc,            \* where the operation in hand stands: "idle", "returned", ...
    earlier,       \* an earlier call on the same instance: its arguments and result
    engine,        \* the RecommendationEngine instance: its tables
    users,         \* the User table: id -> row
    submissions,   \* the Submission table, in insertion order
    call,          \* arguments of the last call of the recommender
    recommendations, \* the list that call returned
    metrics,       \* the ProgressMetric table, in recording order
    milestones,    \* the last report of _track_milestones
    trend,         \* the last result of a trend analysis
    tracker,       \* the EnhancedLearningTracker instance: what it keeps
    generated,     \* the dict returned by the last generate_recommendations call
    threads,       \* the calls in progress side by side, each with its locals
    enriched       \* what the last analyze_code_with_llm call came to

analyzerVars == <<analyzer, code, language, analysis>>
recommenderVars == <<engine, users, submissions, call, recommendations>>

trackerVars == <<metrics, milestones, trend>>

sessionVars == <<tracker, generated, threads, enriched>>

vars == <<analyzerVars, pc, earlier, recommenderVars, trackerVars, sessionVars>>

(***************************************************************************)
(* Bounds of the model.                                                    *)
(***************************************************************************)
MaxLines == 3          \* lines of a structural program
MaxTextLines == 2      \* lines of a program over the whole vocabulary
MaxHistoryLines == 1   \* lines of a program of a repeated call
MaxCyclomatic == 21    \* scoring inputs
MaxIssues == 11
MaxPatterns == 2
MaxAlgorithms == 2
MaxGaps == 3           \* gaps in one call of the recommender
MaxSubmissions == 1    \* stored submissions of a learner of the recommender
MaxHistory == 11       \* submissions of a learner whose milestones are tracked
MaxSamples == 3        \* recorded metrics, and submissions, of a trend analysis
MaxThreads == 2        \* calls in progress side by side
MaxSessions == 2       \* tracked sessions of the learners

(***************************************************************************)
(* Characters and strings.  A text is a sequence of one-character strings. *)
(***************************************************************************)
Min(a, b) == IF a < b THEN a ELSE b
Max(a, b) == IF a > b THEN a ELSE b

UpperCase == <<"A","B","C","D","E","F","G","H","I","J","K","L","M",
               "N","O","P","Q","R","S","T","U","V","W","X","Y","Z">>
LowerCase == <<"a","b","c","d","e","f","g","h","i","j","k","l","m",
               "n","o","p","q","r","s","t","u","v","w","x","y","z">>
Digits == {"0","1","2","3","4","5","6","7","8","9"}

(***************************************************************************)
(* CodeAnalyzer.__init__: the signature tables, in dictionary order.  The  *)
(* regular expressions are the strings of the source.                      *)
(***************************************************************************)
AlgorithmPatterns ==
  <<
     [name |-> "dynamic_programming", patterns |-> <<
        "dp\\[.*\\]", "memo\\[.*\\]", "cache\\[.*\\]", "@lru_cache",
        "@cache", "tabulation">>],
     [name |-> "greedy", patterns |-> <<
        "greedy", "local.*optimal", "sort.*reverse", "heappush", "heappop",
        "priority.*queue">>],
     [name |-> "divide_and_conquer", patterns |-> <<
        "divide.*conquer", "merge.*sort", "quick.*sort", "binary.*search",
        "recursion.*half">>],
     [name |-> "backtracking", patterns |-> <<
        "backtrack", "dfs.*return", "recursive.*choice", "restore.*state",
        "prune.*branch">>],
     [name |-> "sliding_window", patterns |-> <<
        "sliding.*window", "two.*pointer", "left.*right", "window.*size",
        "expand.*contract">>],
     [name |-> "tree_traversal", patterns |-> <<
        "inorder", "preorder", "postorder", "level.*order", "bfs", "dfs",
        "queue.*append", "stack.*append">>],
     [name |-> "graph_algorithms", patterns |-> <<
        "dijkstra", "bellman.*ford", "floyd.*warshall", "union.*find",
        "topological.*sort", "adjacency">>]
  >>

DataStructurePatterns ==
  <<
     [name |-> "array", patterns |-> <<
        "list\\[", "array\\[", "\\[\\]", "append\\(", "pop\\(">>],
     [name |-> "hash_table", patterns |-> <<
        "dict\\(", "defaultdict", "Counter", "set\\(">>],
     [name |-> "linked_list", patterns |-> <<
        "ListNode", "next", "head", "tail">>],
     [name |-> "stack", patterns |-> <<
        "stack", "append\\(", "pop\\(", "LIFO">>],
     [name |-> "queue", patterns |-> <<
        "queue", "deque", "popleft", "appendleft", "FIFO">>],
     [name |-> "heap", patterns |-> <<
        "heapq", "heappush", "heappop", "priority.*queue">>],
     [name |-> "tree", patterns |-> <<
        "TreeNode", "left", "right", "root", "leaf">>],
     [name |-> "graph", patterns |-> <<
        "graph", "adjacency", "edges", "vertices", "neighbors">>]
  >>

TimeIndicators ==
  <<
     [name |-> "O(1)", patterns |-> <<
        "constant.*time", "single.*operation">>],
     [name |-> "O(log n)", patterns |-> <<
        "binary.*search", "tree.*height", "heap.*operation">>],
     [name |-> "O(n)", patterns |-> <<
        "linear.*search", "single.*loop", "one.*pass">>],
     [name |-> "O(n log n)", patterns |-> <<
        "merge.*sort", "heap.*sort", "sort\\(">>],
     [name |-> "O(n^2)", patterns |-> <<
        "nested.*loop", "double.*loop", "quadratic">>],
     [name |-> "O(2^n)", patterns |-> <<
        "exponential", "all.*subsets", "brute.*force">>]
  >>

SpaceIndicators ==
  <<
     [name |-> "O(1)", patterns |-> <<
        "constant.*space", "in.*place">>],
     [name |-> "O(n)", patterns |-> <<
        "auxiliary.*array", "recursion.*stack", "hash.*table">>],
     [name |-> "O(n^2)", patterns |-> <<
        "2d.*array", "matrix", "nested.*structure">>]
  >>

\* _detect_patterns: pattern_checks, the keywords of each pattern
PatternChecks ==
  <<
     [name |-> "two_pointers", patterns |-> <<
        "left", "right", "start", "end", "i", "j">>],
     [name |-> "sliding_window", patterns |-> <<
        "window", "left", "right", "expand", "contract">>],
     [name |-> "fast_slow_pointers", patterns |-> <<
        "slow", "fast", "tortoise", "hare">>],
     [name |-> "merge_intervals", patterns |-> <<
        "merge", "interval", "overlap", "start", "end">>],
     [name |-> "cyclic_sort", patterns |-> <<
        "cycle", "sort", "position", "place">>],
     [name |-> "tree_dfs", patterns |-> <<
        "dfs", "depth", "recursive", "left", "right">>],
     [name |-> "tree_bfs", patterns |-> <<
        "bfs", "breadth", "level", "queue">>],
     [name |-> "topological_sort", patterns |-> <<
        "topological", "indegree", "outdegree", "kahn">>],
     [name |-> "binary_search", patterns |-> <<
        "binary", "search", "mid", "left", "right">>],
     [name |-> "modified_binary_search", patterns |-> <<
        "rotated", "pivot", "search", "sorted">>]
  >>

(***************************************************************************)
(* The characters of every string of the model.                            *)
(***************************************************************************)
Chars ==
    ( "for it in xs:" :> <<"f","o","r"," ","i","t"," ","i","n"," ","x","s",":">>
   @@ "while xs:" :> <<"w","h","i","l","e"," ","x","s",":">>
   @@ "if ok:" :> <<"i","f"," ","o","k",":">>
   @@ "if ok and xs:" :> <<"i","f"," ","o","k"," ","a","n","d"," ","x","s",":">>
   @@ "def solve():" :> <<"d","e","f"," ","s","o","l","v","e","(",")",":">>
   @@ "pass" :> <<"p","a","s","s">>
   @@ "n = 1" :> <<"n"," ","="," ","1">>
   @@ "seen = dict()" :> <<"s","e","e","n"," ","="," ","d","i","c","t","(",")">>
   @@ "seen = {}" :> <<"s","e","e","n"," ","="," ","{","}">>
   @@ "xs.sort()" :> <<"x","s",".","s","o","r","t","(",")">>
   @@ "solve()" :> <<"s","o","l","v","e","(",")">>
   @@ "tot = 1+1" :> <<"t","o","t"," ","="," ","1","+","1">>
   @@ "for it in xs: pass" :> <<"f","o","r"," ","i","t"," ","i","n"," ","x","s",":"," ","p","a","s","s">>
   @@ "seen[it] = 1" :> <<"s","e","e","n","[","i","t","]"," ","="," ","1">>
   @@ "LEFT = 0" :> <<"L","E","F","T"," ","="," ","0">>
   @@ "python" :> <<"p","y","t","h","o","n">>
   @@ "Python" :> <<"P","y","t","h","o","n">>
   @@ "java" :> <<"j","a","v","a">>
   @@ "sort" :> <<"s","o","r","t">>
   @@ "heappush" :> <<"h","e","a","p","p","u","s","h">>
   @@ "heappop" :> <<"h","e","a","p","p","o","p">>
   @@ "dict" :> <<"d","i","c","t">>
   @@ "set" :> <<"s","e","t">>
   @@ "list" :> <<"l","i","s","t">>
   @@ "left" :> <<"l","e","f","t">>
   @@ "right" :> <<"r","i","g","h","t">>
   @@ "start" :> <<"s","t","a","r","t">>
   @@ "end" :> <<"e","n","d">>
   @@ "i" :> <<"i">>
   @@ "j" :> <<"j">>
   @@ "window" :> <<"w","i","n","d","o","w">>
   @@ "expand" :> <<"e","x","p","a","n","d">>
   @@ "contract" :> <<"c","o","n","t","r","a","c","t">>
   @@ "slow" :> <<"s","l","o","w">>
   @@ "fast" :> <<"f","a","s","t">>
   @@ "tortoise" :> <<"t","o","r","t","o","i","s","e">>
   @@ "hare" :> <<"h","a","r","e">>
   @@ "merge" :> <<"m","e","r","g","e">>
   @@ "interval" :> <<"i","n","t","e","r","v","a","l">>
   @@ "overlap" :> <<"o","v","e","r","l","a","p">>
   @@ "cycle" :> <<"c","y","c","l","e">>
   @@ "position" :> <<"p","o","s","i","t","i","o","n">>
   @@ "place" :> <<"p","l","a","c","e">>
   @@ "dfs" :> <<"d","f","s">>
   @@ "depth" :> <<"d","e","p","t","h">>
   @@ "recursive" :> <<"r","e","c","u","r","s","i","v","e">>
   @@ "bfs" :> <<"b","f","s">>
   @@ "breadth" :> <<"b","r","e","a","d","t","h">>
   @@ "level" :> <<"l","e","v","e","l">>
   @@ "queue" :> <<"q","u","e","u","e">>
   @@ "topological" :> <<"t","o","p","o","l","o","g","i","c","a","l">>
   @@ "indegree" :> <<"i","n","d","e","g","r","e","e">>
   @@ "outdegree" :> <<"o","u","t","d","e","g","r","e","e">>
   @@ "kahn" :> <<"k","a","h","n">>
   @@ "binary" :> <<"b","i","n","a","r","y">>
   @@ "search" :> <<"s","e","a","r","c","h">>
   @@ "mid" :> <<"m","i","d">>
   @@ "rotated" :> <<"r","o","t","a","t","e","d">>
   @@ "pivot" :> <<"p","i","v","o","t">>
   @@ "sorted" :> <<"s","o","r","t","e","d">>
   @@ "dp[" :> <<"d","p","[">>
   @@ "]" :> <<"]">>
   @@ "memo[" :> <<"m","e","m","o","[">>
   @@ "cache[" :> <<"c","a","c","h","e","[">>
   @@ "@lru_cache" :> <<"@","l","r","u","_","c","a","c","h","e">>
   @@ "@cache" :> <<"@","c","a","c","h","e">>
   @@ "tabulation" :> <<"t","a","b","u","l","a","t","i","o","n">>
   @@ "greedy" :> <<"g","r","e","e","d","y">>
   @@ "local" :> <<"l","o","c","a","l">>
   @@ "optimal" :> <<"o","p","t","i","m","a","l">>
   @@ "reverse" :> <<"r","e","v","e","r","s","e">>
   @@ "priority" :> <<"p","r","i","o","r","i","t","y">>
   @@ "divide" :> <<"d","i","v","i","d","e">>
   @@ "conquer" :> <<"c","o","n","q","u","e","r">>
   @@ "quick" :> <<"q","u","i","c","k">>
   @@ "recursion" :> <<"r","e","c","u","r","s","i","o","n">>
   @@ "half" :> <<"h","a","l","f">>
   @@ "backtrack" :> <<"b","a","c","k","t","r","a","c","k">>
   @@ "return" :> <<"r","e","t","u","r","n">>
   @@ "choice" :> <<"c","h","o","i","c","e">>
   @@ "restore" :> <<"r","e","s","t","o","r","e">>
   @@ "state" :> <<"s","t","a","t","e">>
   @@ "prune" :> <<"p","r","u","n","e">>
   @@ "branch" :> <<"b","r","a","n","c","h">>
   @@ "sliding" :> <<"s","l","i","d","i","n","g">>
   @@ "two" :> <<"t","w","o">>
   @@ "pointer" :> <<"p","o","i","n","t","e","r">>
   @@ "size" :> <<"s","i","z","e">>
   @@ "inorder" :> <<"i","n","o","r","d","e","r">>
   @@ "preorder" :> <<"p","r","e","o","r","d","e","r">>
   @@ "postorder" :> <<"p","o","s","t","o","r","d","e","r">>
   @@ "order" :> <<"o","r","d","e","r">>
   @@ "append" :> <<"a","p","p","e","n","d">>
   @@ "stack" :> <<"s","t","a","c","k">>
   @@ "dijkstra" :> <<"d","i","j","k","s","t","r","a">>
   @@ "bellman" :> <<"b","e","l","l","m","a","n">>
   @@ "ford" :> <<"f","o","r","d">>
   @@ "floyd" :> <<"f","l","o","y","d">>
   @@ "warshall" :> <<"w","a","r","s","h","a","l","l">>
   @@ "union" :> <<"u","n","i","o","n">>
   @@ "find" :> <<"f","i","n","d">>
   @@ "adjacency" :> <<"a","d","j","a","c","e","n","c","y">>
   @@ "list[" :> <<"l","i","s","t","[">>
   @@ "array[" :> <<"a","r","r","a","y","[">>
   @@ "[]" :> <<"[","]">>
   @@ "append(" :> <<"a","p","p","e","n","d","(">>
   @@ "pop(" :> <<"p","o","p","(">>
   @@ "dict(" :> <<"d","i","c","t","(">>
   @@ "defaultdict" :> <<"d","e","f","a","u","l","t","d","i","c","t">>
   @@ "Counter" :> <<"C","o","u","n","t","e","r">>
   @@ "set(" :> <<"s","e","t","(">>
   @@ "ListNode" :> <<"L","i","s","t","N","o","d","e">>
   @@ "next" :> <<"n","e","x","t">>
   @@ "head" :> <<"h","e","a","d">>
   @@ "tail" :> <<"t","a","i","l">>
   @@ "LIFO" :> <<"L","I","F","O">>
   @@ "deque" :> <<"d","e","q","u","e">>
   @@ "popleft" :> <<"p","o","p","l","e","f","t">>
   @@ "appendleft" :> <<"a","p","p","e","n","d","l","e","f","t">>
   @@ "FIFO" :> <<"F","I","F","O">>
   @@ "heapq" :> <<"h","e","a","p","q">>
   @@ "TreeNode" :> <<"T","r","e","e","N","o","d","e">>
   @@ "root" :> <<"r","o","o","t">>
   @@ "leaf" :> <<"l","e","a","f">>
   @@ "graph" :> <<"g","r","a","p","h">>
   @@ "edges" :> <<"e","d","g","e","s">>
   @@ "vertices" :> <<"v","e","r","t","i","c","e","s">>
   @@ "neighbors" :> <<"n","e","i","g","h","b","o","r","s">>
   @@ "constant" :> <<"c","o","n","s","t","a","n","t">>
   @@ "time" :> <<"t","i","m","e">>
   @@ "single" :> <<"s","i","n","g","l","e">>
   @@ "operation" :> <<"o","p","e","r","a","t","i","o","n">>
   @@ "tree" :> <<"t","r","e","e">>
   @@ "height" :> <<"h","e","i","g","h","t">>
   @@ "heap" :> <<"h","e","a","p">>
   @@ "linear" :> <<"l","i","n","e","a","r">>
   @@ "loop" :> <<"l","o","o","p">>
   @@ "one" :> <<"o","n","e">>
   @@ "sort(" :> <<"s","o","r","t","(">>
   @@ "nested" :> <<"n","e","s","t","e","d">>
   @@ "double" :> <<"d","o","u","b","l","e">>
   @@ "quadratic" :> <<"q","u","a","d","r","a","t","i","c">>
   @@ "exponential" :> <<"e","x","p","o","n","e","n","t","i","a","l">>
   @@ "all" :> <<"a","l","l">>
   @@ "subsets" :> <<"s","u","b","s","e","t","s">>
   @@ "brute" :> <<"b","r","u","t","e">>
   @@ "force" :> <<"f","o","r","c","e">>
   @@ "space" :> <<"s","p","a","c","e">>
   @@ "in" :> <<"i","n">>
   @@ "auxiliary" :> <<"a","u","x","i","l","i","a","r","y">>
   @@ "array" :> <<"a","r","r","a","y">>
   @@ "hash" :> <<"h","a","s","h">>
   @@ "table" :> <<"t","a","b","l","e">>
   @@ "2d" :> <<"2","d">>
   @@ "matrix" :> <<"m","a","t","r","i","x">>
   @@ "structure" :> <<"s","t","r","u","c","t","u","r","e">> )

(***************************************************************************)
(* re.compile: every regular expression of the tables is a chain of        *)
(* literals joined by ".*", kept as the sequence of its literals with the  *)
(* escapes removed.                                                        *)
(***************************************************************************)
Compiled ==
    ( "dp\\[.*\\]" :> <<"dp[", "]">>
   @@ "memo\\[.*\\]" :> <<"memo[", "]">>
   @@ "cache\\[.*\\]" :> <<"cache[", "]">>
   @@ "@lru_cache" :> <<"@lru_cache">>
   @@ "@cache" :> <<"@cache">>
   @@ "tabulation" :> <<"tabulation">>
   @@ "greedy" :> <<"greedy">>
   @@ "local.*optimal" :> <<"local", "optimal">>
   @@ "sort.*reverse" :> <<"sort", "reverse">>
   @@ "heappush" :> <<"heappush">>
   @@ "heappop" :> <<"heappop">>
   @@ "priority.*queue" :> <<"priority", "queue">>
   @@ "divide.*conquer" :> <<"divide", "conquer">>
   @@ "merge.*sort" :> <<"merge", "sort">>
   @@ "quick.*sort" :> <<"quick", "sort">>
   @@ "binary.*search" :> <<"binary", "search">>
   @@ "recursion.*half" :> <<"recursion", "half">>
   @@ "backtrack" :> <<"backtrack">>
   @@ "dfs.*return" :> <<"dfs", "return">>
   @@ "recursive.*choice" :> <<"recursive", "choice">>
   @@ "restore.*state" :> <<"restore", "state">>
   @@ "prune.*branch" :> <<"prune", "branch">>
   @@ "sliding.*window" :> <<"sliding", "window">>
   @@ "two.*pointer" :> <<"two", "pointer">>
   @@ "left.*right" :> <<"left", "right">>
   @@ "window.*size" :> <<"window", "size">>
   @@ "expand.*contract" :> <<"expand", "contract">>
   @@ "inorder" :> <<"inorder">>
   @@ "preorder" :> <<"preorder">>
   @@ "postorder" :> <<"postorder">>
   @@ "level.*order" :> <<"level", "order">>
   @@ "bfs" :> <<"bfs">>
   @@ "dfs" :> <<"dfs">>
   @@ "queue.*append" :> <<"queue", "append">>
   @@ "stack.*append" :> <<"stack", "append">>
   @@ "dijkstra" :> <<"dijkstra">>
   @@ "bellman.*ford" :> <<"bellman", "ford">>
   @@ "floyd.*warshall" :> <<"floyd", "warshall">>
   @@ "union.*find" :> <<"union", "find">>
   @@ "topological.*sort" :> <<"topological", "sort">>
   @@ "adjacency" :> <<"adjacency">>
   @@ "list\\[" :> <<"list[">>
   @@ "array\\[" :> <<"array[">>
   @@ "\\[\\]" :> <<"[]">>
   @@ "append\\(" :> <<"append(">>
   @@ "pop\\(" :> <<"pop(">>
   @@ "dict\\(" :> <<"dict(">>
   @@ "defaultdict" :> <<"defaultdict">>
   @@ "Counter" :> <<"Counter">>
   @@ "set\\(" :> <<"set(">>
   @@ "ListNode" :> <<"ListNode">>
   @@ "next" :> <<"next">>
   @@ "head" :> <<"head">>
   @@ "tail" :> <<"tail">>
   @@ "stack" :> <<"stack">>
   @@ "LIFO" :> <<"LIFO">>
   @@ "queue" :> <<"queue">>
   @@ "deque" :> <<"deque">>
   @@ "popleft" :> <<"popleft">>
   @@ "appendleft" :> <<"appendleft">>
   @@ "FIFO" :> <<"FIFO">>
   @@ "heapq" :> <<"heapq">>
   @@ "TreeNode" :> <<"TreeNode">>
   @@ "left" :> <<"left">>
   @@ "right" :> <<"right">>
   @@ "root" :> <<"root">>
   @@ "leaf" :> <<"leaf">>
   @@ "graph" :> <<"graph">>
   @@ "edges" :> <<"edges">>
   @@ "vertices" :> <<"vertices">>
   @@ "neighbors" :> <<"neighbors">>
   @@ "constant.*time" :> <<"constant", "time">>
   @@ "single.*operation" :> <<"single", "operation">>
   @@ "tree.*height" :> <<"tree", "height">>
   @@ "heap.*operation" :> <<"heap", "operation">>
   @@ "linear.*search" :> <<"linear", "search">>
   @@ "single.*loop" :> <<"single", "loop">>
   @@ "one.*pass" :> <<"one", "pass">>
   @@ "heap.*sort" :> <<"heap", "sort">>
   @@ "sort\\(" :> <<"sort(">>
   @@ "nested.*loop" :> <<"nested", "loop">>
   @@ "double.*loop" :> <<"double", "loop">>
   @@ "quadratic" :> <<"quadratic">>
   @@ "exponential" :> <<"exponential">>
   @@ "all.*subsets" :> <<"all", "subsets">>
   @@ "brute.*force" :> <<"brute", "force">>
   @@ "constant.*space" :> <<"constant", "space">>
   @@ "in.*place" :> <<"in", "place">>
   @@ "auxiliary.*array" :> <<"auxiliary", "array">>
   @@ "recursion.*stack" :> <<"recursion", "stack">>
   @@ "hash.*table" :> <<"hash", "table">>
   @@ "2d.*array" :> <<"2d", "array">>
   @@ "matrix" :> <<"matrix">>
   @@ "nested.*structure" :> <<"nested", "structure">> )

NamesOf(table) == [i \in DOMAIN table |-> table[i].name]
Range(s) == {s[i] : i \in DOMAIN s}

\* str.lower() on one character
LowerChar(c) ==
    IF \E i \in DOMAIN UpperCase : UpperCase[i] = c
    THEN LowerCase[CHOOSE i \in DOMAIN UpperCase : UpperCase[i] = c]
    ELSE c

\* str.lower(), on the characters of a string
Lower(s) == [i \in DOMAIN s |-> LowerChar(s[i])]

OccursAt(needle, hay, i) ==
    /\ i + Len(needle) - 1 <= Len(hay)
    /\ \A k \in 1..Len(needle) : hay[i + k - 1] = needle[k]

\* Python's  needle in hay  on one line of text
Contains(needle, hay) == \E i \in 1..Len(hay) : OccursAt(needle, hay, i)

\* The literals of a compiled expression are found in their order, each after
\* the end of the one before.  "." does not match a newline, so a match lies
\* within one line.
RECURSIVE MatchFrom(_, _, _, _)
MatchFrom(parts, text, k, from) ==
    IF k > Len(parts) THEN TRUE
    ELSE \E i \in from..Len(text) :
            /\ OccursAt(Lower(Chars[parts[k]]), text, i)
            /\ MatchFrom(parts, text, k + 1, i + Len(Chars[parts[k]]))

\* re.search(pattern, line, re.IGNORECASE)
ReSearchIgnoreCase(pattern, text) == MatchFrom(Compiled[pattern], Lower(text), 1, 1)

WordChars == Range(UpperCase) \cup Range(LowerCase) \cup Digits \cup {"_"}

\* re.search(r'\b[a-z]\b', line)
SingleLetterWord(text) ==
    \E i \in 1..Len(text) :
        /\ text[i] \in Range(LowerCase)
        /\ (i = 1 \/ text[i - 1] \notin WordChars)
        /\ (i = Len(text) \/ text[i + 1] \notin WordChars)

(***************************************************************************)
(* The statement vocabulary.  A statement is named by its text.  Each has  *)
(* the kind of syntax-tree node it parses to, whether it is a compound     *)
(* statement whose body is on the lines below it, whether it holds a call  *)
(* of a plain name (ast.Call with ast.Name as func), the number of         *)
(* operands of its boolean operator (0 when it has none), and whether its  *)
(* expression nests deeper than the interpreter's recursion limit allows   *)
(* (a sum of some hundreds of terms, of which the text shows the first     *)
(* two).                                                                   *)
(***************************************************************************)
StmtFor     == "for it in xs:"
StmtWhile   == "while xs:"
StmtIf      == "if ok:"
StmtIfAnd   == "if ok and xs:"
StmtDef     == "def solve():"
StmtPass    == "pass"
StmtAssign  == "n = 1"
StmtDict    == "seen = dict()"
StmtBraces  == "seen = {}"
StmtSort    == "xs.sort()"
StmtCall    == "solve()"
StmtLongSum == "tot = 1+1"
StmtForPass == "for it in xs: pass"
StmtStore   == "seen[it] = 1"
StmtUpper   == "LEFT = 0"

Node(kind, opens, callsName, boolOperands, deep) ==
    [kind |-> kind, opens |-> opens, callsName |-> callsName,
     boolOperands |-> boolOperands, deep |-> deep]

StmtInfo ==
    ( StmtFor     :> Node("For", TRUE, FALSE, 0, FALSE)
   @@ StmtWhile   :> Node("While", TRUE, FALSE, 0, FALSE)
   @@ StmtIf      :> Node("If", TRUE, FALSE, 0, FALSE)
   @@ StmtIfAnd   :> Node("If", TRUE, FALSE, 2, FALSE)
   @@ StmtDef     :> Node("FunctionDef", TRUE, FALSE, 0, FALSE)
   @@ StmtPass    :> Node("Simple", FALSE, FALSE, 0, FALSE)
   @@ StmtAssign  :> Node("Simple", FALSE, FALSE, 0, FALSE)
   @@ StmtDict    :> Node("Simple", FALSE, TRUE, 0, FALSE)
   @@ StmtBraces  :> Node("Simple", FALSE, FALSE, 0, FALSE)
   @@ StmtSort    :> Node("Simple", FALSE, FALSE, 0, FALSE)
   @@ StmtCall    :> Node("Simple", FALSE, TRUE, 0, FALSE)
   @@ StmtLongSum :> Node("Simple", FALSE, FALSE, 0, TRUE)
   @@ StmtForPass :> Node("For", FALSE, FALSE, 0, FALSE)
   @@ StmtStore   :> Node("Simple", FALSE, FALSE, 0, FALSE)
   @@ StmtUpper   :> Node("Simple", FALSE, FALSE, 0, FALSE) )

Statements == DOMAIN StmtInfo
StructureStatements == {StmtFor, StmtWhile, StmtIf, StmtDef, StmtPass, StmtForPass}

Kind(line) == StmtInfo[line.stmt].kind
Opens(line) == StmtInfo[line.stmt].opens
Text(line) == Chars[line.stmt]

\* The declared languages.
Languages == {"Python", "java"}

(***************************************************************************)
(* Programs: the sequences of n lines over a set of statements.  A line is *)
(* indented at most one level deeper than the line before it; any deeper   *)
(* indentation opens the same block.                                       *)
(***************************************************************************)
WellIndented(p) ==
    \A i \in DOMAIN p : p[i].indent <= (IF i = 1 THEN 1 ELSE p[i - 1].indent + 1)

Programs(stmts, n) ==
    {p \in [1..n -> [indent : 0..n, stmt : stmts]] : WellIndented(p)}

(***************************************************************************)
(* ast.parse.  Indentation errors are SyntaxErrors (IndentationError is a  *)
(* subclass); they are found before the tree is built, so they come before *)
(* the RecursionError of a too deeply nested expression.                   *)
(***************************************************************************)
IndentationErrorAt(lines, i) ==
    IF i = Len(lines) + 1
    THEN Len(lines) > 0 /\ Opens(lines[Len(lines)])
                                                             \* expected an indented block
    ELSE IF i = 1 THEN lines[1].indent # 0                   \* unexpected indent
    ELSE IF Opens(lines[i - 1])
         THEN lines[i].indent <= lines[i - 1].indent         \* expected an indented block
         ELSE lines[i].indent > lines[i - 1].indent          \* unexpected indent

ast_parse(lines) ==
    IF \E i \in 1..Len(lines) + 1 : IndentationErrorAt(lines, i)
    THEN [outcome |-> "SyntaxError",
          line |-> Min(Len(lines),
                       CHOOSE i \in 1..Len(lines) + 1 :
                          /\ IndentationErrorAt(lines, i)
                          /\ \A j \in 1..i - 1 : ~IndentationErrorAt(lines, j))]
    ELSE IF \E i \in DOMAIN lines : StmtInfo[lines[i].stmt].deep
    THEN [outcome |-> "RecursionError", line |-> 0]
    ELSE [outcome |-> "ok", line |-> 0]

\* The nodes of the tree are the lines, in source order (a pre-order walk).
\* ast.walk visits every node once: a count over the lines.
CountKind(lines, kinds) == Cardinality({i \in DOMAIN lines : Kind(lines[i]) \in kinds})

RECURSIVE SumOver(_, _, _)
SumOver(f(_), lines, i) ==
    IF i > Len(lines) THEN 0 ELSE f(lines[i]) + SumOver(f, lines, i + 1)

(***************************************************************************)
(* _calculate_cyclomatic_complexity                                        *)
(***************************************************************************)
CyclomaticOfNode(line) ==
    IF Kind(line) \in {"If", "While", "For", "AsyncFor"} THEN
        1 + (IF StmtInfo[line.stmt].boolOperands > 0
             THEN StmtInfo[line.stmt].boolOperands - 1 ELSE 0)
    ELSE IF Kind(line) = "ExceptHandler" THEN 1
    ELSE 0

calculate_cyclomatic_complexity(lines) == 1 + SumOver(CyclomaticOfNode, lines, 1)

(***************************************************************************)
(* ast.NodeVisitor with a nesting counter (LoopCounter, NestingChecker).   *)
(* The walk is depth first: on reaching a line, the nodes that are still   *)
(* open at its indentation or deeper are left (counter decremented for     *)
(* each counted one), then the line's node is entered (counter incremented *)
(* and the maximum updated when it is a counted one).  open is the stack   *)
(* of entered nodes, innermost last.                                       *)
(***************************************************************************)
RECURSIVE Leave(_, _, _)
Leave(st, kinds, depth) ==
    IF Len(st.open) > 0 /\ st.open[Len(st.open)].indent >= depth
    THEN LET top == st.open[Len(st.open)]
         IN  Leave([st EXCEPT !.open = SubSeq(st.open, 1, Len(st.open) - 1),
                              !.current_nesting =
                                  IF top.kind \in kinds THEN @ - 1 ELSE @],
                   kinds, depth)
    ELSE st

Enter(st, kinds, line) ==
    LET counted == Kind(line) \in kinds
        cur == IF counted THEN st.current_nesting + 1 ELSE st.current_nesting
    IN  [open |-> Append(st.open, [indent |-> line.indent, kind |-> Kind(line)]),
         current_nesting |-> cur,
         max_nesting |-> IF counted THEN Max(st.max_nesting, cur) ELSE st.max_nesting]

RECURSIVE VisitFrom(_, _, _, _)
VisitFrom(lines, kinds, i, st) ==
    IF i > Len(lines) THEN Leave(st, kinds, 0)
    ELSE VisitFrom(lines, kinds, i + 1, Enter(Leave(st, kinds, lines[i].indent), kinds, lines[i]))

NodeVisitor(lines, kinds) ==
    VisitFrom(lines, kinds, 1, [open |-> << >>, current_nesting |-> 0, max_nesting |-> 0])

\* a counter that never leaves a loop: it counts the loops of the source
FlatLoopCounter(lines) ==
    [open |-> << >>, current_nesting |-> CountKind(lines, {"For", "While"}),
     max_nesting |-> CountKind(lines, {"For", "While"})]

LoopCounter(lines) == NodeVisitor(lines, {"For", "While"})
NestingChecker(lines) == NodeVisitor(lines, {"If"})

(***************************************************************************)
(* Signature detection.                                                    *)
(***************************************************************************)
\* the signatures of line 255
ContainerSignatures == <<"dict", "set", "list">>

\* the signatures of line 239
SortSignatures == <<"sort", "heappush", "heappop">>

TextsOf(lines) == {Text(lines[i]) : i \in DOMAIN lines}

\* The answers for the signatures of the tables as constructed, computed once
\* per statement of the vocabulary.
RegexHits ==
    [p \in DOMAIN Compiled |-> {s \in Statements : ReSearchIgnoreCase(p, Chars[s])}]
KeywordHits ==
    [k \in DOMAIN Chars |-> {s \in Statements : Contains(Chars[k], Lower(Chars[s]))}]
CaseHits ==
    [k \in DOMAIN Chars |-> {s \in Statements : Contains(Chars[k], Chars[s])}]
SingleLetterStatements == {s \in Statements : SingleLetterWord(Chars[s])}

\*  keyword in code.lower()
InCodeLower(keyword, lines) == \E i \in DOMAIN lines : lines[i].stmt \in KeywordHits[keyword]
\*  keyword in code
InCode(keyword, lines) == \E i \in DOMAIN lines : lines[i].stmt \in CaseHits[keyword]
\*  re.search(pattern, code, re.IGNORECASE)
re_search(pattern, lines) == \E i \in DOMAIN lines : lines[i].stmt \in RegexHits[pattern]

\* The rows of a table of which some signature is found, in table order
\* (for ... in dict.items(): ... append; break).
RECURSIVE Detected(_, _, _, _)
Detected(table, found(_, _), lines, i) ==
    IF i > Len(table) THEN << >>
    ELSE (IF \E k \in DOMAIN table[i].patterns : found(table[i].patterns[k], lines)
          THEN <<table[i].name>> ELSE << >>)
         \o Detected(table, found, lines, i + 1)

\* a detection that looks for the keywords in the code as written
detect_patterns_as_written(lines) == Detected(PatternChecks, InCode, lines, 1)

detect_patterns(lines) == Detected(PatternChecks, InCodeLower, lines, 1)
detect_algorithms(lines) == Detected(analyzer.algorithm_patterns, re_search, lines, 1)
detect_data_structures(lines) == Detected(analyzer.data_structure_patterns, re_search, lines, 1)

(***************************************************************************)
(* Complexity estimation.                                                  *)
(***************************************************************************)
PowerClass == <<"O(n^1)", "O(n^2)", "O(n^3)", "O(n^4)", "O(n^5)", "O(n^6)", "O(n^7)", "O(n^8)">>

\* an estimate that has no class above the quadratic one
estimate_time_complexity_capped(lines) ==
    LET counter == LoopCounter(lines) IN
    IF counter.max_nesting = 0 THEN "O(1)"
    ELSE IF counter.max_nesting = 1 THEN
        IF \E k \in DOMAIN SortSignatures : InCodeLower(SortSignatures[k], lines)
        THEN "O(n log n)" ELSE "O(n)"
    ELSE "O(n^2)"

\* _estimate_time_complexity
estimate_time_complexity(lines) ==
    LET counter == LoopCounter(lines) IN
    IF counter.max_nesting = 0 THEN "O(1)"
    ELSE IF counter.max_nesting = 1 THEN
        IF \E k \in DOMAIN SortSignatures : InCodeLower(SortSignatures[k], lines)
        THEN "O(n log n)" ELSE "O(n)"
    ELSE IF counter.max_nesting = 2 THEN "O(n^2)"
    ELSE PowerClass[counter.max_nesting]

\* _estimate_space_complexity
estimate_space_complexity(lines) ==
    LET has_recursion == \E i \in DOMAIN lines : StmtInfo[lines[i].stmt].callsName IN
    IF \E k \in DOMAIN ContainerSignatures : InCode(ContainerSignatures[k], lines)
    THEN "O(n)"
    ELSE IF has_recursion THEN "O(n)"
    ELSE "O(1)"

\* the first row of a table of which some signature is found
RECURSIVE FirstIndicated(_, _, _, _)
FirstIndicated(table, lines, i, default) ==
    IF i > Len(table) THEN default
    ELSE IF \E k \in DOMAIN table[i].patterns : re_search(table[i].patterns[k], lines)
    THEN table[i].name
    ELSE FirstIndicated(table, lines, i + 1, default)

\* _estimate_time_complexity_regex, _estimate_space_complexity_regex
estimate_time_complexity_regex(lines) ==
    FirstIndicated(analyzer.complexity_indicators.time, lines, 1, "O(n)")
estimate_space_complexity_regex(lines) ==
    FirstIndicated(analyzer.complexity_indicators.space, lines, 1, "O(1)")

(***************************************************************************)
(* _detect_code_issues.  A function's source segment runs from its def     *)
(* line to the last line of its block.                                     *)
(***************************************************************************)
LongFunctionLimit == 50
DeepNestingLimit == 4

BlockEnd(lines, i) ==
    IF \E j \in i + 1..Len(lines) : lines[j].indent <= lines[i].indent
    THEN (CHOOSE j \in i + 1..Len(lines) :
             /\ lines[j].indent <= lines[i].indent
             /\ \A k \in i + 1..j - 1 : lines[k].indent > lines[i].indent) - 1
    ELSE Len(lines)

func_lines(lines, i) == BlockEnd(lines, i) - i + 1

RECURSIVE LongFunctionIssues(_, _)
LongFunctionIssues(lines, i) ==
    IF i > Len(lines) THEN << >>
    ELSE (IF Kind(lines[i]) = "FunctionDef" /\ func_lines(lines, i) > LongFunctionLimit
          THEN <<[msg |-> "Function is too long", n |-> func_lines(lines, i)]>>
          ELSE << >>)
         \o LongFunctionIssues(lines, i + 1)

detect_code_issues(lines) ==
    LET checker == NestingChecker(lines) IN
    LongFunctionIssues(lines, 1)
    \o (IF checker.max_nesting > DeepNestingLimit
        THEN <<[msg |-> "Deep nesting detected", n |-> checker.max_nesting]>>
        ELSE << >>)
    \o (IF \E i \in DOMAIN lines : lines[i].stmt \in SingleLetterStatements
        THEN <<[msg |-> "Single letter variable names detected", n |-> 0]>>
        ELSE << >>)

InList(x, list) == \E i \in DOMAIN list : list[i] = x

\* _generate_suggestions
generate_suggestions(a) ==
    (IF a.time_complexity = "O(n^2)"
     THEN <<"Consider optimizing to O(n log n) using sorting or O(n) using hash table">>
     ELSE << >>)
    \o (IF InList("brute_force", a.patterns)
        THEN <<"Consider using dynamic programming or greedy approach">> ELSE << >>)
    \o (IF InList("array", a.data_structures) /\ InList("lookup", a.patterns)
        THEN <<"Consider using hash table for O(1) lookups">> ELSE << >>)

(***************************************************************************)
(* Scores.  dict.get(key, default) on a function.                          *)
(***************************************************************************)
Get(d, key, default) == IF key \in DOMAIN d THEN d[key] ELSE default

time_penalties ==
    ( "O(1)" :> 0 @@ "O(log n)" :> 0 @@ "O(n)" :> 5
   @@ "O(n log n)" :> 15 @@ "O(n^2)" :> 30 @@ "O(2^n)" :> 50 )
UnknownClassPenalty == 20
CyclomaticThreshold == 10
CyclomaticPenaltyCap == 30

\* a score whose penalty for the cyclomatic complexity has no cap
calculate_complexity_score_uncapped(a) ==
    LET cyclomatic == Get(a.metrics, "cyclomatic_complexity", 0)
        s1 == 100 - Get(time_penalties, a.time_complexity, UnknownClassPenalty)
        s2 == IF cyclomatic > CyclomaticThreshold
              THEN s1 - (cyclomatic - CyclomaticThreshold) * 3
              ELSE s1
        s3 == s2 - Len(a.issues) * 5
    IN  Max(0, s3)

\* _calculate_complexity_score
calculate_complexity_score(a) ==
    LET cyclomatic == Get(a.metrics, "cyclomatic_complexity", 0)
        s1 == 100 - Get(time_penalties, a.time_complexity, UnknownClassPenalty)
        s2 == IF cyclomatic > CyclomaticThreshold
              THEN s1 - Min(CyclomaticPenaltyCap, (cyclomatic - CyclomaticThreshold) * 3)
              ELSE s1
        s3 == s2 - Len(a.issues) * 5
    IN  Max(0, s3)

UnclampedQualityScore(a) ==
    100 - Len(a.issues) * 10 + Len(a.patterns) * 5 + Len(a.algorithms) * 3

\* _calculate_quality_score
calculate_quality_score(a) ==
    Min(100, Max(0, 100 - Len(a.issues) * 10 + Len(a.patterns) * 5 + Len(a.algorithms) * 3))

\* analyze_code, lines 89-91
calculate_scores(a) ==
    LET scored == [a EXCEPT !.complexity_score = calculate_complexity_score(a)]
    IN  [scored EXCEPT !.quality_score = calculate_quality_score(scored)]

(***************************************************************************)
(* analyze_code and the two analysis paths.                                *)
(***************************************************************************)
\* ''.split('\n') is [''] : the empty text has one line
lines_of_code(lines) == IF Len(lines) = 0 THEN 1 ELSE Len(lines)

EmptyDict == [k \in {} |-> 0]

\* a result dict that is kept on the instance and reused by the next call
shared_analysis(lang) ==
    [language |-> lang, complexity_score |-> 0, quality_score |-> 0,
     patterns |-> << >>, algorithms |-> << >>, data_structures |-> << >>,
     time_complexity |-> "Unknown", space_complexity |-> "Unknown",
     metrics |-> EmptyDict, issues |-> analysis.issues, suggestions |-> << >>]

\* the dict literal that analyze_code builds on every call
new_analysis(lang) ==
    [language |-> lang, complexity_score |-> 0, quality_score |-> 0,
     patterns |-> << >>, algorithms |-> << >>, data_structures |-> << >>,
     time_complexity |-> "Unknown", space_complexity |-> "Unknown",
     metrics |-> EmptyDict, issues |-> << >>, suggestions |-> << >>]

\* _analyze_generic_code
analyze_generic_code(lines, a) ==
    [a EXCEPT !.metrics = ("lines_of_code" :> lines_of_code(lines)) @@ @,
              !.patterns = detect_patterns(lines),
              !.algorithms = detect_algorithms(lines),
              !.data_structures = detect_data_structures(lines),
              !.time_complexity = estimate_time_complexity_regex(lines),
              !.space_complexity = estimate_space_complexity_regex(lines)]

\* _analyze_python_code, the try block after a successful parse
analyze_parsed_code(lines, a) ==
    LET measured ==
            [a EXCEPT !.metrics =
                          ( "lines_of_code" :> lines_of_code(lines)
                         @@ "functions" :> CountKind(lines, {"FunctionDef"})
                         @@ "loops" :> CountKind(lines, {"For", "While"})
                         @@ "conditionals" :> CountKind(lines, {"If"})
                         @@ "cyclomatic_complexity" :> calculate_cyclomatic_complexity(lines) ),
                      !.patterns = detect_patterns(lines),
                      !.algorithms = detect_algorithms(lines),
                      !.data_structures = detect_data_structures(lines),
                      !.time_complexity = estimate_time_complexity(lines),
                      !.space_complexity = estimate_space_complexity(lines),
                      !.issues = detect_code_issues(lines)]
    IN  [measured EXCEPT !.suggestions = generate_suggestions(measured)]

\* _analyze_python_code, the except SyntaxError clause
analyze_unparsed_code(lines, a, parsed) ==
    analyze_generic_code(lines,
        [a EXCEPT !.issues = Append(@, [msg |-> "Syntax error", n |-> parsed.line])])

\* the exceptions the try block lets through: every one but SyntaxError
Raises(lines, lang) ==
    /\ Lower(Chars[lang]) = Chars["python"]
    /\ ast_parse(lines).outcome \notin {"ok", "SyntaxError"}

\* the dict as it stands before the scores are calculated (lines 82-87)
analyze_filled(lines, lang, a) ==
    IF Lower(Chars[lang]) = Chars["python"]
    THEN IF ast_parse(lines).outcome = "SyntaxError"
         THEN analyze_unparsed_code(lines, a, ast_parse(lines))
         ELSE analyze_parsed_code(lines, a)
    ELSE analyze_generic_code(lines, a)

\* the dict analyze_code returns when it returns
analyze_result(lines, lang) ==
    calculate_scores(analyze_filled(lines, lang, new_analysis(lang)))

analyze_code(lines, lang) ==
    /\ pc \in {"idle", "returned", "raised"}
    /\ code' = lines
    /\ language' = lang
    /\ IF Raises(lines, lang)
       THEN pc' = "raised" /\ UNCHANGED analysis
       ELSE pc' = "returned" /\ analysis' = analyze_result(lines, lang)
    /\ UNCHANGED analyzer

(***************************************************************************)
(* RecommendationEngine: the knowledge graph and its helper methods.       *)
(* An importance is kept in tenths (0.9 is 9).                             *)
(***************************************************************************)
Concept(prerequisites, leads_to, difficulty, importance) ==
    [prerequisites |-> prerequisites, leads_to |-> leads_to,
     difficulty |-> difficulty, importance |-> importance]

\* a graph in which array asks for two_pointers, which asks for array
looped_knowledge_graph ==
    [data_structures |->
        ( "array" :> Concept(<<"two_pointers">>, <<"dynamic_programming">>, "beginner", 9)
       @@ "linked_list" :> Concept(<<"array">>, <<"stack">>, "beginner", 8)
       @@ "hash_table" :> Concept(<<"array">>, <<"two_sum">>, "intermediate", 9) ),
     algorithms |->
        ( "two_pointers" :> Concept(<<"array">>, <<"sliding_window">>, "intermediate", 8) ),
     patterns |->
        ( "recursion" :> Concept(<<"function_basics">>, <<"tree_problems">>,
                                 "intermediate", 9) )]

\* _build_knowledge_graph
build_knowledge_graph ==
    [data_structures |->
        ( "array" :> Concept(<< >>,
              <<"dynamic_programming", "two_pointers", "sliding_window">>, "beginner", 9)
       @@ "linked_list" :> Concept(<<"array">>,
              <<"stack", "queue", "tree">>, "beginner", 8)
       @@ "stack" :> Concept(<<"linked_list">>,
              <<"recursion", "backtracking">>, "intermediate", 7)
       @@ "queue" :> Concept(<<"linked_list">>,
              <<"bfs", "tree_traversal">>, "intermediate", 7)
       @@ "hash_table" :> Concept(<<"array">>,
              <<"two_sum", "caching", "memoization">>, "intermediate", 9)
       @@ "heap" :> Concept(<<"array", "tree">>,
              <<"priority_queue", "dijkstra", "kth_element">>, "advanced", 8)
       @@ "tree" :> Concept(<<"linked_list", "recursion">>,
              <<"bst", "trie", "segment_tree">>, "intermediate", 8)
       @@ "graph" :> Concept(<<"tree", "queue">>,
              <<"dfs", "bfs", "shortest_path">>, "advanced", 9) ),
     algorithms |->
        ( "two_pointers" :> Concept(<<"array">>,
              <<"sliding_window", "merge_intervals">>, "intermediate", 8)
       @@ "sliding_window" :> Concept(<<"two_pointers">>,
              <<"substring_problems", "optimization">>, "intermediate", 8)
       @@ "binary_search" :> Concept(<<"array", "recursion">>,
              <<"search_optimization", "divide_and_conquer">>, "intermediate", 9)
       @@ "dynamic_programming" :> Concept(<<"recursion", "memoization">>,
              <<"optimization_problems", "advanced_dp">>, "advanced", 9)
       @@ "greedy" :> Concept(<<"array", "sorting">>,
              <<"optimization", "graph_algorithms">>, "intermediate", 7)
       @@ "backtracking" :> Concept(<<"recursion", "dfs">>,
              <<"combinatorics", "constraint_satisfaction">>, "advanced", 8)
       @@ "dfs" :> Concept(<<"tree", "graph", "recursion">>,
              <<"backtracking", "topological_sort">>, "intermediate", 8)
       @@ "bfs" :> Concept(<<"tree", "graph", "queue">>,
              <<"shortest_path", "level_order">>, "intermediate", 8) ),
     patterns |->
        ( "recursion" :> Concept(<<"function_basics">>,
              <<"tree_problems", "dynamic_programming">>, "intermediate", 9)
       @@ "memoization" :> Concept(<<"recursion", "hash_table">>,
              <<"dynamic_programming", "optimization">>, "intermediate", 8) )]

\* the order of the graph's categories
GraphCategories == <<"data_structures", "algorithms", "patterns">>

Resource(title, type, difficulty, estimated_time) ==
    [title |-> title, type |-> type, difficulty |-> difficulty,
     estimated_time |-> estimated_time]

\* _load_learning_resources (a resource is named by its title; its url is
\* not kept)
load_learning_resources ==
    ( "array" :>
        << Resource("Array Fundamentals", "article", "beginner", 30),
           Resource("Two Sum Problem", "problem", "easy", 20) >>
   @@ "linked_list" :>
        << Resource("Linked List Implementation", "tutorial", "beginner", 45),
           Resource("Reverse Linked List", "problem", "easy", 25) >>
   @@ "dynamic_programming" :>
        << Resource("DP Patterns and Techniques", "video", "advanced", 120),
           Resource("Climbing Stairs", "problem", "easy", 15) >>
   @@ "binary_search" :>
        << Resource("Binary Search Template", "article", "intermediate", 40),
           Resource("Search Insert Position", "problem", "easy", 20) >> )

\* RecommendationEngine.__init__
NewRecommendationEngine ==
    [knowledge_graph |-> build_knowledge_graph,
     learning_resources |-> load_learning_resources,
     difficulty_progression |->
        [beginner |-> <<"easy">>, intermediate |-> <<"easy", "medium">>,
         advanced |-> <<"medium", "hard">>]]

None == [None |-> TRUE]

\* a lookup that answers for a concept of no category with a default entry
find_concept_or_default(concept) ==
    LET having == {k \in DOMAIN GraphCategories :
                      concept \in DOMAIN engine.knowledge_graph[GraphCategories[k]]}
    IN  IF having = {} THEN Concept(<< >>, << >>, "intermediate", 5)
        ELSE LET k == CHOOSE k \in having : \A m \in having : k <= m
             IN  engine.knowledge_graph[GraphCategories[k]][concept]

\* _find_concept_in_graph: the entry of the first category that has the concept
find_concept_in_graph(concept) ==
    LET having == {k \in DOMAIN GraphCategories :
                      concept \in DOMAIN engine.knowledge_graph[GraphCategories[k]]}
    IN  IF having = {} THEN None
        ELSE LET k == CHOOSE k \in having : \A m \in having : k <= m
             IN  engine.knowledge_graph[GraphCategories[k]][concept]

\* the concepts of the rows of one user: the comma-separated fields of
\* patterns_used, and the items of algorithms_identified where it is a JSON list
RowConcepts(row) ==
    Range(row.patterns_used)
        \cup (IF row.algorithms_identified.json
              THEN Range(row.algorithms_identified.items) ELSE {})

user_concepts(user_id) ==
    UNION {RowConcepts(submissions[i]) :
              i \in {j \in DOMAIN submissions : submissions[j].user_id = user_id}}

\* _check_prerequisites
check_prerequisites(user_id, prerequisites) ==
    \/ Len(prerequisites) = 0
    \/ \A k \in DOMAIN prerequisites : prerequisites[k] \in user_concepts(user_id)

\* a priority that takes an importance of 0.8 for more than 0.8, and one of
\* 0.7 for more than 0.7
calculate_priority_from(gap, concept_info) ==
    IF gap.severity = "high" /\ concept_info.importance >= 8 THEN "high"
    ELSE IF gap.severity = "high" \/ concept_info.importance >= 7 THEN "medium"
    ELSE "low"

\* _calculate_priority
calculate_priority(gap, concept_info) ==
    IF gap.severity = "high" /\ concept_info.importance > 8 THEN "high"
    ELSE IF gap.severity = "high" \/ concept_info.importance > 7 THEN "medium"
    ELSE "low"

base_times ==
    ( "array" :> 60 @@ "linked_list" :> 90 @@ "hash_table" :> 120
   @@ "recursion" :> 180 @@ "dynamic_programming" :> 300
   @@ "two_pointers" :> 90 @@ "binary_search" :> 120 )

\* int(base_time * multiplier) in double arithmetic: 1.5 and 1.0 are exact;
\* 0.7 is the double just below seven tenths, and the rounded product falls
\* below the whole number for the base times 90 and 180 (62 and 125)
IntOfProduct(base_time, skill_level) ==
    IF skill_level = "beginner" THEN (base_time * 3) \div 2
    ELSE IF skill_level = "advanced"
         THEN IF base_time \in {90, 180} THEN (base_time * 7) \div 10 - 1
              ELSE (base_time * 7) \div 10
    ELSE base_time

\* _estimate_learning_time
estimate_learning_time(concept, skill_level) ==
    IntOfProduct(Get(base_times, concept, 120), skill_level)

(***************************************************************************)
(* _recommend_concepts.                                                    *)
(***************************************************************************)
TopRecommendations == 5

Reverse(s) == [i \in 1..Len(s) |-> s[Len(s) + 1 - i]]

\* the sort key of lines 367-369
PriorityKey(rec) ==
    Get(("high" :> 3 @@ "medium" :> 2 @@ "low" :> 1), Get(rec, "priority", "low"), 1)

\* x is put behind the entries of an ascending list that do not exceed it
InsertBehind(sorted, x) ==
    LET k == Cardinality({i \in DOMAIN sorted : PriorityKey(sorted[i]) <= PriorityKey(x)})
    IN  SubSeq(sorted, 1, k) \o <<x>> \o SubSeq(sorted, k + 1, Len(sorted))

RECURSIVE SortAscending(_, _)
SortAscending(list, n) ==
    IF n = 0 THEN << >> ELSE InsertBehind(SortAscending(list, n - 1), list[n])

\* an ascending sort whose result is reversed
sorted_then_reversed(list) == Reverse(SortAscending(list, Len(list)))

\* list.sort(key, reverse=True): the list is reversed, sorted ascending and
\* stable, and reversed again
sort_by_priority(list) == Reverse(SortAscending(Reverse(list), Len(list)))

PrerequisiteFor(concept) == [text |-> "Prerequisite for", concept |-> concept]

\* the entries the loop body of _recommend_concepts appends for one gap
RecommendationsFor(user_id, skill_level, gap) ==
    LET concept == gap.concept
        concept_info == find_concept_in_graph(concept)
    IN  IF concept_info = None THEN << >>
        ELSE IF check_prerequisites(user_id, concept_info.prerequisites)
        THEN << [concept |-> concept,
                 category |-> gap.category,
                 priority |-> calculate_priority(gap, concept_info),
                 difficulty |-> concept_info.difficulty,
                 estimated_time |-> estimate_learning_time(concept, skill_level),
                 prerequisites |-> concept_info.prerequisites,
                 leads_to |-> concept_info.leads_to] >>
        ELSE LET known == SelectSeq(concept_info.prerequisites,
                                    LAMBDA prereq : find_concept_in_graph(prereq) # None)
             IN  [k \in DOMAIN known |->
                    [concept |-> known[k],
                     category |-> "prerequisite",
                     priority |-> "high",
                     difficulty |-> find_concept_in_graph(known[k]).difficulty,
                     estimated_time |-> estimate_learning_time(known[k], skill_level),
                     reason |-> PrerequisiteFor(concept)]]

\* the list the loop over the gaps builds, in the order it is built
RECURSIVE Collected(_, _, _, _)
Collected(user_id, skill_level, gaps, n) ==
    IF n = 0 THEN << >>
    ELSE Collected(user_id, skill_level, gaps, n - 1)
            \o RecommendationsFor(user_id, skill_level, gaps[n])

\* User.query.get(user_id).skill_level, or the default for no such user
skill_level_of(user_id) ==
    IF user_id \in DOMAIN users THEN users[user_id].skill_level ELSE "beginner"

recommend_concepts(user_id, knowledge_gaps) ==
    LET recommendations_ == Collected(user_id, skill_level_of(user_id),
                                      knowledge_gaps, Len(knowledge_gaps))
        sorted == sort_by_priority(recommendations_)
    IN  SubSeq(sorted, 1, Min(TopRecommendations, Len(sorted)))


(***************************************************************************)
(* Gap identification.                                                     *)
(***************************************************************************)
RecentSubmissions == 10

Gap(concept, category, severity, reason) ==
    [concept |-> concept, category |-> category, severity |-> severity,
     reason |-> reason]

MissingFundamental(concept) ==
    Gap(concept, "fundamental", "high",
        [text |-> "Missing fundamental concept", concept |-> concept])

SuboptimalComplexity ==
    Gap("algorithmic_optimization", "performance", "medium",
        [text |-> "Code has suboptimal time complexity", concept |-> ""])

TwoPointersGap ==
    Gap("two_pointers", "pattern", "medium",
        [text |-> "Array problems can often be optimized with two pointers technique",
         concept |-> ""])

fundamental_concepts == <<"array", "linked_list", "hash_table", "recursion">>

\* the three rules both identification methods share; known holds the tags
\* that excuse a fundamental concept
GapsOutside(known, code_analysis) ==
    LET missing == SelectSeq(fundamental_concepts, LAMBDA concept : concept \notin known)
    IN  [k \in DOMAIN missing |-> MissingFundamental(missing[k])]
        \o (IF code_analysis.time_complexity \in {"O(n^2)", "O(2^n)"}
            THEN <<SuboptimalComplexity>> ELSE << >>)
        \o (IF /\ InList("array", code_analysis.data_structures)
               /\ ~InList("two_pointers", code_analysis.patterns)
            THEN <<TwoPointersGap>> ELSE << >>)

\* the pattern tags of the learner's ten latest submissions
recent_patterns(user_id) ==
    LET own == SelectSeq(submissions, LAMBDA row : row.user_id = user_id)
        recent == SubSeq(own, Max(1, Len(own) - RecentSubmissions + 1), Len(own))
    IN  UNION {Range(recent[i].patterns_used) : i \in DOMAIN recent}

\* _identify_knowledge_gaps
identify_knowledge_gaps(user_id, code_analysis) ==
    GapsOutside(Range(code_analysis.data_structures) \cup Range(code_analysis.algorithms)
                    \cup recent_patterns(user_id),
                code_analysis)

\* _identify_anonymous_knowledge_gaps
identify_anonymous_knowledge_gaps(code_analysis) ==
    GapsOutside(Range(code_analysis.data_structures) \cup Range(code_analysis.algorithms),
                code_analysis)

(***************************************************************************)
(* generate_recommendations and the methods it calls.                      *)
(***************************************************************************)
\* _is_suitable_difficulty
is_suitable_difficulty(resource_difficulty, user_difficulty) ==
    LET difficulty_levels == ("beginner" :> 0 @@ "intermediate" :> 1 @@ "advanced" :> 2)
    IN  Get(difficulty_levels, resource_difficulty, 1)
            <= Get(difficulty_levels, user_difficulty, 1) + 1

\* _recommend_resources
RECURSIVE recommend_resources(_, _)
recommend_resources(concept_recommendations, n) ==
    IF n = 0 THEN << >>
    ELSE LET concept_rec == concept_recommendations[n]
             concept_resources == Get(engine.learning_resources, concept_rec.concept, << >>)
             suitable_resources ==
                 SelectSeq(concept_resources,
                           LAMBDA resource :
                               is_suitable_difficulty(resource.difficulty,
                                                      concept_rec.difficulty))
             chosen == SubSeq(suitable_resources, 1, Min(2, Len(suitable_resources)))
         IN  recommend_resources(concept_recommendations, n - 1)
                \o [k \in DOMAIN chosen |->
                      [concept |-> concept_rec.concept,
                       title |-> chosen[k].title,
                       type |-> chosen[k].type,
                       difficulty |-> chosen[k].difficulty,
                       estimated_time |-> chosen[k].estimated_time,
                       priority |-> Get(concept_rec, "priority", "medium")]]

Problem(title, difficulty) == [title |-> title, difficulty |-> difficulty]

\* the entries of problem_mapping that the two problem methods share
array_problems ==
    <<Problem("Two Sum", "easy"), Problem("Best Time to Buy and Sell Stock", "easy")>>
linked_list_problems ==
    <<Problem("Reverse Linked List", "easy"), Problem("Merge Two Sorted Lists", "easy")>>

\* the problems of every gap, in the order of the gaps
RECURSIVE ProblemsOf(_, _, _, _)
ProblemsOf(problem_mapping, entry(_, _), knowledge_gaps, n) ==
    IF n = 0 THEN << >>
    ELSE LET gap == knowledge_gaps[n]
             found == Get(problem_mapping, gap.concept, << >>)
         IN  ProblemsOf(problem_mapping, entry, knowledge_gaps, n - 1)
                \o [k \in DOMAIN found |-> entry(gap, found[k])]

\* _recommend_problems
recommend_problems(knowledge_gaps) ==
    LET problem_mapping ==
            ( "array" :> array_problems
           @@ "linked_list" :> linked_list_problems
           @@ "dynamic_programming" :>
                <<Problem("Climbing Stairs", "easy"), Problem("House Robber", "medium")>>
           @@ "two_pointers" :>
                <<Problem("Valid Palindrome", "easy"),
                  Problem("Container With Most Water", "medium")>> )
        entry(gap, problem) ==
            [concept |-> gap.concept, title |-> problem.title,
             difficulty |-> problem.difficulty, estimated_time |-> 30,
             priority |-> gap.severity]
        problems == ProblemsOf(problem_mapping, entry, knowledge_gaps, Len(knowledge_gaps))
    IN  SubSeq(problems, 1, Min(8, Len(problems)))

\* _generate_improvement_suggestions; list(set(suggestions)) has no order of
\* its own, the result is kept as the set
generate_improvement_suggestions(code_analysis, knowledge_gaps) ==
    Range(code_analysis.suggestions)
        \cup {"Learn the two pointers technique to optimize array problems" :
                 g \in {i \in DOMAIN knowledge_gaps :
                           knowledge_gaps[i].concept = "two_pointers"}}
        \cup {"Study dynamic programming patterns to solve optimization problems" :
                 g \in {i \in DOMAIN knowledge_gaps :
                           knowledge_gaps[i].concept = "dynamic_programming"}}
        \cup {"Use hash tables for O(1) lookups and to avoid nested loops" :
                 g \in {i \in DOMAIN knowledge_gaps :
                           knowledge_gaps[i].concept = "hash_table"}}
        \cup (IF code_analysis.time_complexity = "O(n^2)"
              THEN {"Consider using hash tables or two pointers to reduce time complexity"}
              ELSE {})

\* _calculate_study_time and _calculate_anonymous_study_time: every entry
\* the two recommenders build has an estimated_time
RECURSIVE calculate_study_time(_, _)
calculate_study_time(concept_recommendations, n) ==
    IF n = 0 THEN 0
    ELSE calculate_study_time(concept_recommendations, n - 1)
            + concept_recommendations[n].estimated_time

\* _recommend_anonymous_concepts
recommend_anonymous_concepts(knowledge_gaps) ==
    LET known == SelectSeq(knowledge_gaps,
                           LAMBDA gap : find_concept_in_graph(gap.concept) # None)
        recommendations_ ==
            [k \in DOMAIN known |->
                [concept |-> known[k].concept,
                 category |-> known[k].category,
                 difficulty |-> find_concept_in_graph(known[k].concept).difficulty,
                 estimated_time |-> estimate_learning_time(known[k].concept, "beginner")]]
    IN  SubSeq(recommendations_, 1, Min(TopRecommendations, Len(recommendations_)))

\* _recommend_anonymous_problems
recommend_anonymous_problems(knowledge_gaps) ==
    LET problem_mapping ==
            ( "array" :> array_problems
           @@ "linked_list" :> linked_list_problems
           @@ "hash_table" :>
                <<Problem("Valid Anagram", "easy"), Problem("Group Anagrams", "medium")>> )
        entry(gap, problem) ==
            [concept |-> gap.concept, title |-> problem.title,
             difficulty |-> problem.difficulty]
        problems == ProblemsOf(problem_mapping, entry, knowledge_gaps, Len(knowledge_gaps))
    IN  SubSeq(problems, 1, Min(6, Len(problems)))

\* _generate_anonymous_recommendations
generate_anonymous_recommendations(code_analysis) ==
    LET knowledge_gaps == identify_anonymous_knowledge_gaps(code_analysis)
        concept_recommendations == recommend_anonymous_concepts(knowledge_gaps)
    IN  [knowledge_gaps |-> knowledge_gaps,
         concepts_to_learn |-> concept_recommendations,
         practice_problems |-> recommend_anonymous_problems(knowledge_gaps),
         improvement_suggestions |->
             generate_improvement_suggestions(code_analysis, knowledge_gaps),
         estimated_study_time |->
             calculate_study_time(concept_recommendations, Len(concept_recommendations))]

\* the user_id of a request without a learner (None)
NoUserId == 0

\* the dict generate_recommendations returns for a registered learner
registered_recommendations(code_analysis, knowledge_gaps, concept_recommendations) ==
    [knowledge_gaps |-> knowledge_gaps,
     concepts_to_learn |-> concept_recommendations,
     recommended_resources |->
         recommend_resources(concept_recommendations, Len(concept_recommendations)),
     practice_problems |-> recommend_problems(knowledge_gaps),
     improvement_suggestions |->
         generate_improvement_suggestions(code_analysis, knowledge_gaps),
     estimated_study_time |->
         calculate_study_time(concept_recommendations, Len(concept_recommendations))]

\* the two tests of lines 214-220 that send a request to the anonymous method
is_anonymous(user_id) == user_id = NoUserId \/ user_id \notin DOMAIN users

\* generate_recommendations
generate_recommendations(user_id, code_analysis) ==
    IF is_anonymous(user_id)
    THEN generate_anonymous_recommendations(code_analysis)
    ELSE LET knowledge_gaps == identify_knowledge_gaps(user_id, code_analysis)
         IN  registered_recommendations(code_analysis, knowledge_gaps,
                                        recommend_concepts(user_id, knowledge_gaps))

(***************************************************************************)
(* ProgressTracker: milestones.  A column that may hold None is a record   *)
(* [null, value].                                                          *)
(***************************************************************************)
Null == [null |-> TRUE, value |-> 0]
Some(v) == [null |-> FALSE, value |-> v]

\* (x or 0)
OrZero(x) == IF x.null THEN 0 ELSE x.value

\* a row of the Submission table: the columns the engines read
Submission(user_id, patterns_used, algorithms_identified, quality_score, complexity_score, submitted_at) ==
    [user_id |-> user_id, patterns_used |-> patterns_used,
     algorithms_identified |-> algorithms_identified,
     quality_score |-> quality_score, complexity_score |-> complexity_score,
     submitted_at |-> submitted_at]

milestone_criteria ==
    << [count |-> 10, id |-> "10_submissions",
        description |-> "Completed 10 coding problems"],
       [count |-> 25, id |-> "25_submissions",
        description |-> "Completed 25 coding problems"],
       [count |-> 50, id |-> "50_submissions",
        description |-> "Completed 50 coding problems"],
       [count |-> 100, id |-> "100_submissions",
        description |-> "Completed 100 coding problems"] >>

score_milestones ==
    << [threshold |-> 60, id |-> "first_good_score",
        description |-> "Achieved first quality score above 60"],
       [threshold |-> 80, id |-> "first_great_score",
        description |-> "Achieved first quality score above 80"],
       [threshold |-> 90, id |-> "excellence",
        description |-> "Achieved excellence with score above 90"] >>

\* max(quality_scores)
MaxQuality(subs) ==
    LET scores == {OrZero(subs[i].quality_score) : i \in DOMAIN subs}
    IN  CHOOSE m \in scores : \A s \in scores : s <= m

\* the latest submission whose score reaches the threshold
LastReaching(subs, threshold) ==
    LET reaching == {i \in DOMAIN subs : OrZero(subs[i].quality_score) >= threshold}
    IN  CHOOSE i \in reaching : \A j \in reaching : j <= i

\* the submission at which the inner loop of _track_milestones breaks
FirstReaching(subs, threshold) ==
    LET reaching == {i \in DOMAIN subs : OrZero(subs[i].quality_score) >= threshold}
    IN  CHOOSE i \in reaching : \A j \in reaching : i <= j

\* _track_milestones
track_milestones(subs) ==
    LET counted == SelectSeq(milestone_criteria, LAMBDA c : Len(subs) >= c.count)
        scored == IF Len(subs) = 0 THEN << >>
                  ELSE SelectSeq(score_milestones,
                                 LAMBDA m : MaxQuality(subs) >= m.threshold)
    IN  [first_submission |->
            IF Len(subs) = 0 THEN Null ELSE Some(subs[1].submitted_at),
         submissions_count |-> Len(subs),
         milestones_achieved |->
            [k \in DOMAIN counted |->
                [id |-> counted[k].id,
                 description |-> counted[k].description,
                 achieved_date |-> subs[counted[k].count].submitted_at,
                 celebration_worthy |-> TRUE]]
            \o
            [k \in DOMAIN scored |->
                [id |-> scored[k].id,
                 description |-> scored[k].description,
                 achieved_date |->
                    subs[FirstReaching(subs, scored[k].threshold)].submitted_at,
                 score |->
                    subs[FirstReaching(subs, scored[k].threshold)].quality_score]]]

(***************************************************************************)
(* Trend analysis.  A fraction is a record [num, den] with den > 0; the    *)
(* least-squares slope and the means are kept as exact fractions.          *)
(***************************************************************************)
Fraction(num, den) == [num |-> num, den |-> den]

RECURSIVE Sum(_, _)
Sum(values, n) == IF n = 0 THEN 0 ELSE Sum(values, n - 1) + values[n]

RECURSIVE Gcd(_, _)
Gcd(a, b) == IF b = 0 THEN a ELSE Gcd(b, a % b)

Lcm(a, b) == (a * b) \div Gcd(a, b)

RECURSIVE LcmOfDens(_, _)
LcmOfDens(fractions, n) ==
    IF n = 0 THEN 1 ELSE Lcm(LcmOfDens(fractions, n - 1), fractions[n].den)

\* np.mean
Mean(values) == Fraction(Sum(values, Len(values)), Len(values))

\* the last k values of a list, values[-k:]
Last(values, k) == SubSeq(values, Max(1, Len(values) - k + 1), Len(values))

\* the slope of the line through the last two points only
LastStepSlope(values) ==
    Fraction(values[Len(values)] - values[Len(values) - 1], 1)

\* the slope of the least-squares line through (0, values[1]), (1, values[2]), ...
\* that np.polyfit(range(n), values, 1)[0] and LinearRegression.coef_[0] compute
LeastSquaresSlope(values) ==
    LET n == Len(values)
        xs == [i \in 1..n |-> i - 1]
        Sx == Sum(xs, n)
        Sxx == Sum([i \in 1..n |-> xs[i] * xs[i]], n)
        Sxy == Sum([i \in 1..n |-> xs[i] * values[i]], n)
        Sy == Sum(values, n)
    IN  Fraction(n * Sxy - Sx * Sy, n * Sxx - Sx * Sx)

\* slope > 0.1, slope < -0.1, abs(slope) <= 0.1
AboveTenth(slope) == 10 * slope.num > slope.den
BelowMinusTenth(slope) == 10 * slope.num < 0 - slope.den
WithinOne(slope) == slope.num <= slope.den /\ 0 - slope.num <= slope.den
WithinTenth(slope) == ~AboveTenth(slope) /\ ~BelowMinusTenth(slope)

\* a list with no sample at all
NoData(values) == Len(values) < 1

\* the guard len(...) < 2 of the three trend functions
InsufficientData(values) == Len(values) < 2

Times(fraction, k) == Fraction(fraction.num * k, fraction.den)

ValuesOf(metrics_, metric_name) ==
    LET chosen == SelectSeq(metrics_, LAMBDA m : m.metric_name = metric_name)
    IN  [i \in DOMAIN chosen |-> chosen[i].metric_value]

\* LearningAnalytics._analyze_quality_trend
analyze_quality_trend(metrics_) ==
    LET values == ValuesOf(metrics_, "code_quality")
        trend_slope == LeastSquaresSlope(values)
    IN  IF InsufficientData(values) THEN [trend |-> "insufficient_data"]
        ELSE [trend |-> IF AboveTenth(trend_slope) THEN "improving"
                        ELSE IF WithinTenth(trend_slope) THEN "stable"
                        ELSE "declining",
              slope |-> trend_slope,
              current_average |-> IF Len(values) >= 5 THEN Mean(Last(values, 5))
                                  ELSE Mean(values),
              improvement_rate |-> Times(trend_slope, 30)]

\* LearningAnalytics._analyze_complexity_trend
analyze_complexity_trend(metrics_) ==
    LET values == ValuesOf(metrics_, "complexity_handling")
        trend_slope == LeastSquaresSlope(values)
    IN  IF InsufficientData(values) THEN [trend |-> "insufficient_data"]
        ELSE [trend |-> IF AboveTenth(trend_slope) THEN "improving"
                        ELSE IF WithinTenth(trend_slope) THEN "stable"
                        ELSE "declining",
              slope |-> trend_slope,
              current_level |-> IF Len(values) >= 3 THEN Mean(Last(values, 3))
                                ELSE Mean(values)]

(***************************************************************************)
(* ProgressTracker._track_skill_progression.  A submission time is a day   *)
(* of one year that begins on a Sunday, so that the week key %Y-W%U is the *)
(* day divided by seven.                                                   *)
(***************************************************************************)
week_key(submitted_at) == submitted_at \div 7

\* the keys of submissions_by_week, in the order in which they are inserted
RECURSIVE WeekKeys(_, _)
WeekKeys(subs, n) ==
    IF n = 0 THEN << >>
    ELSE LET before == WeekKeys(subs, n - 1)
             key == week_key(subs[n].submitted_at)
         IN  IF InList(key, before) THEN before ELSE Append(before, key)

\* (avg_quality + avg_complexity) / 2 of the submissions of one week
WeeklyScore(subs, key) ==
    LET week_submissions == SelectSeq(subs, LAMBDA s : week_key(s.submitted_at) = key)
        k == Len(week_submissions)
        quality == [i \in 1..k |-> OrZero(week_submissions[i].quality_score)]
        complexity == [i \in 1..k |-> OrZero(week_submissions[i].complexity_score)]
    IN  Fraction(Sum(quality, k) + Sum(complexity, k), 2 * k)

\* the fractions as whole numbers of their common denominator
Scaled(fractions) ==
    LET d == LcmOfDens(fractions, Len(fractions))
    IN  [i \in DOMAIN fractions |-> fractions[i].num * (d \div fractions[i].den)]

SlopeOfFractions(fractions) ==
    LET slope == LeastSquaresSlope(Scaled(fractions))
    IN  Fraction(slope.num, slope.den * LcmOfDens(fractions, Len(fractions)))

\* max(weekly_scores)
Best(fractions) ==
    CHOOSE i \in DOMAIN fractions :
        \A j \in DOMAIN fractions :
            fractions[j].num * fractions[i].den <= fractions[i].num * fractions[j].den

\* ((last - first) / first) * 100 if first > 0 else 0, before it is rounded
improvement_rate(weekly_scores) ==
    LET first == weekly_scores[1]
        last == weekly_scores[Len(weekly_scores)]
    IN  IF first.num > 0
        THEN Fraction((last.num * first.den - first.num * last.den) * 100,
                      last.den * first.num)
        ELSE Fraction(0, 1)

\* round(x, 2) in hundredths, for a fraction that is not halfway between two
RoundedHundredths(x) ==
    LET twice == (2 * 100 * x.num + x.den)
    IN  IF twice >= 0 THEN twice \div (2 * x.den)
        ELSE 0 - ((0 - twice + 2 * x.den - 1) \div (2 * x.den))

\* _calculate_consistency: 0.0 for fewer than two scores; otherwise the mean
\* and the variance that the formula combines, the square root not taken
calculate_consistency(scores) ==
    IF Len(scores) < 2 THEN [zero |-> TRUE, mean |-> Fraction(0, 1), variance |-> Fraction(0, 1)]
    ELSE LET d == LcmOfDens(scores, Len(scores))
             whole == Scaled(scores)
             n == Len(scores)
             total == Sum(whole, n)
             squares == Sum([i \in 1..n |-> whole[i] * whole[i]], n)
         IN  [zero |-> FALSE,
              mean |-> Fraction(total, n * d),
              variance |-> Fraction(n * squares - total * total, n * n * d * d)]

\* _track_skill_progression
track_skill_progression(subs) ==
    IF InsufficientData(subs) THEN [trend |-> "insufficient_data"]
    ELSE LET weeks == WeekKeys(subs, Len(subs))
             weekly_scores == [w \in DOMAIN weeks |-> WeeklyScore(subs, weeks[w])]
             trend_slope == SlopeOfFractions(weekly_scores)
             fitted == Len(weekly_scores) >= 2
         IN  [trend |-> IF ~fitted THEN "insufficient_data"
                        ELSE IF AboveTenth(trend_slope) THEN "improving"
                        ELSE IF BelowMinusTenth(trend_slope) THEN "declining"
                        ELSE "stable",
              improvement_rate_percentage |->
                  IF fitted THEN RoundedHundredths(improvement_rate(weekly_scores)) ELSE 0,
              weekly_average_scores |-> weekly_scores,
              current_score |-> weekly_scores[Len(weekly_scores)],
              best_score |-> weekly_scores[Best(weekly_scores)],
              consistency |-> calculate_consistency(weekly_scores)]

(***************************************************************************)
(* LearningAnalytics.analyze_learning_trajectory.  A row of the            *)
(* ProgressMetric table has the learner, the name and value of the metric  *)
(* and the day it was recorded.                                            *)
(***************************************************************************)
ProgressMetric(user_id, metric_name, metric_value, recorded_at) ==
    [user_id |-> user_id, metric_name |-> metric_name, metric_value |-> metric_value,
     recorded_at |-> recorded_at]

\* the metric names that start with skill_, with what follows the prefix
skill_names ==
    ( "skill_algorithmic_optimization" :> "algorithmic_optimization"
   @@ "skill_clean_code" :> "clean_code"
   @@ "skill_pattern_recognition" :> "pattern_recognition"
   @@ "skill_level_progression" :> "level_progression" )

\* _analyze_skill_development
analyze_skill_development(metrics_) ==
    LET skill_metrics == SelectSeq(metrics_, LAMBDA m : m.metric_name \in DOMAIN skill_names)
        named(skill_name) ==
            SelectSeq(skill_metrics, LAMBDA m : skill_names[m.metric_name] = skill_name)
    IN  [skill_name \in {skill_names[skill_metrics[i].metric_name] :
                            i \in DOMAIN skill_metrics} |->
            Sum([i \in DOMAIN named(skill_name) |-> named(skill_name)[i].metric_value],
                Len(named(skill_name)))]

\* _calculate_learning_velocity and _categorize_velocity
calculate_learning_velocity(metrics_) ==
    IF Len(metrics_) < 2 THEN [velocity |-> "insufficient_data"]
    ELSE LET days == metrics_[Len(metrics_)].recorded_at - metrics_[1].recorded_at
             sessions == Len(SelectSeq(metrics_,
                                       LAMBDA m : m.metric_name = "learning_session"))
         IN  IF days < 7 THEN [velocity |-> "insufficient_timespan"]
             ELSE [sessions_per_week |-> Fraction(sessions * 7, days),
                   total_weeks_active |-> Fraction(days, 7),
                   velocity_category |->
                       IF sessions * 7 >= 5 * days THEN "high"
                       ELSE IF sessions * 7 >= 2 * days THEN "moderate"
                       ELSE IF sessions * 14 >= days THEN "low"
                       ELSE "very_low"]

\* _classify_trajectory
classify_trajectory(quality_trend, complexity_trend) ==
    IF quality_trend.trend = "improving" /\ complexity_trend.trend = "improving"
    THEN "excellent_progress"
    ELSE IF quality_trend.trend = "improving" \/ complexity_trend.trend = "improving"
    THEN "good_progress"
    ELSE IF quality_trend.trend = "stable" /\ complexity_trend.trend = "stable"
    THEN "steady_state"
    ELSE "needs_attention"

\* the query of analyze_learning_trajectory: the learner's rows by recorded_at
metrics_of(user_id) == SelectSeq(metrics, LAMBDA m : m.user_id = user_id)

\* analyze_learning_trajectory, after its query
trajectory_of(metrics_) ==
    IF Len(metrics_) = 0 THEN [trajectory |-> "insufficient_data"]
    ELSE [quality_trend |-> analyze_quality_trend(metrics_),
          complexity_trend |-> analyze_complexity_trend(metrics_),
          skill_development |-> analyze_skill_development(metrics_),
          learning_velocity |-> calculate_learning_velocity(metrics_),
          overall_trajectory |->
              classify_trajectory(analyze_quality_trend(metrics_),
                                  analyze_complexity_trend(metrics_))]

analyze_learning_trajectory(user_id) == trajectory_of(metrics_of(user_id))

(***************************************************************************)
(* EnhancedLearningTracker.track_code_analysis_session.  The tables the    *)
(* session writes are handed on as a record db with the users and the      *)
(* metrics; now is the day of the session.                                 *)
(***************************************************************************)
RecentDays == 30

\* _record_progress_metric
record_progress_metric(db, user_id, metric_name, metric_value, now) ==
    [db EXCEPT !.metrics = Append(@, ProgressMetric(user_id, metric_name, metric_value, now))]

\* np.mean(values) > k
MeanAbove(values, tenths) == 10 * Sum(values, Len(values)) > tenths * Len(values)

\* an evaluation that tests the step to advanced after the step to
\* intermediate, in the same call
evaluate_skill_level_twice(db, user_id, now) ==
    LET recent_metrics ==
            SelectSeq(db.metrics,
                      LAMBDA m : m.user_id = user_id /\ m.recorded_at >= now - RecentDays)
        quality_scores == ValuesOf(recent_metrics, "code_quality")
        complexity_scores == ValuesOf(recent_metrics, "complexity_handling")
        first == IF /\ db.users[user_id].skill_level = "beginner"
                    /\ MeanAbove(quality_scores, 70)
                    /\ MeanAbove(complexity_scores, 60)
                 THEN record_progress_metric(
                          [db EXCEPT !.users[user_id].skill_level = "intermediate"],
                          user_id, "skill_level_progression", 2, now)
                 ELSE db
    IN  IF Len(quality_scores) = 0 \/ Len(complexity_scores) = 0 THEN db
        ELSE IF user_id \notin DOMAIN db.users THEN db
        ELSE IF /\ first.users[user_id].skill_level = "intermediate"
                /\ MeanAbove(quality_scores, 85)
                /\ MeanAbove(complexity_scores, 80)
        THEN record_progress_metric(
                 [first EXCEPT !.users[user_id].skill_level = "advanced"],
                 user_id, "skill_level_progression", 3, now)
        ELSE first

\* _evaluate_skill_level_progression
evaluate_skill_level_progression(db, user_id, now) ==
    LET recent_metrics ==
            SelectSeq(db.metrics,
                      LAMBDA m : m.user_id = user_id /\ m.recorded_at >= now - RecentDays)
        quality_scores == ValuesOf(recent_metrics, "code_quality")
        complexity_scores == ValuesOf(recent_metrics, "complexity_handling")
        current_level == db.users[user_id].skill_level
    IN  IF Len(recent_metrics) = 0 THEN db
        ELSE IF Len(quality_scores) = 0 \/ Len(complexity_scores) = 0 THEN db
        ELSE IF user_id \notin DOMAIN db.users THEN db
        ELSE IF /\ current_level = "beginner"
                /\ MeanAbove(quality_scores, 70)
                /\ MeanAbove(complexity_scores, 60)
        THEN record_progress_metric(
                 [db EXCEPT !.users[user_id].skill_level = "intermediate"],
                 user_id, "skill_level_progression", 2, now)
        ELSE IF /\ current_level = "intermediate"
                /\ MeanAbove(quality_scores, 85)
                /\ MeanAbove(complexity_scores, 80)
        THEN record_progress_metric(
                 [db EXCEPT !.users[user_id].skill_level = "advanced"],
                 user_id, "skill_level_progression", 3, now)
        ELSE db

\* _update_learning_progress
update_learning_progress(db, user_id, analysis_results, now) ==
    LET one == record_progress_metric(db, user_id, "complexity_handling",
                                      analysis_results.complexity_score, now)
        two == record_progress_metric(one, user_id, "code_quality",
                                      analysis_results.quality_score, now)
        three == record_progress_metric(two, user_id, "pattern_diversity",
                                        Cardinality(Range(analysis_results.patterns)), now)
        four == record_progress_metric(three, user_id, "algorithm_diversity",
                                       Cardinality(Range(analysis_results.algorithms)), now)
    IN  evaluate_skill_level_progression(four, user_id, now)

\* _track_skill_development
track_skill_development(db, user_id, analysis_results, now) ==
    LET skills_demonstrated ==
            (IF analysis_results.time_complexity \in {"O(log n)", "O(n log n)"}
             THEN <<"skill_algorithmic_optimization">> ELSE << >>)
            \o (IF analysis_results.quality_score > 8
                THEN <<"skill_clean_code">> ELSE << >>)
            \o (IF Len(analysis_results.patterns) > 2
                THEN <<"skill_pattern_recognition">> ELSE << >>)
    IN  [db EXCEPT !.metrics =
            @ \o [k \in DOMAIN skills_demonstrated |->
                     ProgressMetric(user_id, skills_demonstrated[k], 1, now)]]

\* track_code_analysis_session: what it leaves in the tracker and the tables
\* (the session_data it returns is not kept anywhere)
track_code_analysis_session(tracker_, db, user_id, analysis_results, recommendations_, now) ==
    IF user_id = NoUserId THEN [tracker |-> tracker_, db |-> db]
    ELSE LET progressed == update_learning_progress(db, user_id, analysis_results, now)
             developed == track_skill_development(progressed, user_id, analysis_results, now)
         IN  [tracker |->
                 [tracker_ EXCEPT !.recommendations_storage =
                     Append(@, [user_id |-> user_id,
                                recommendations |-> recommendations_,
                                generated_at |-> now,
                                type |-> "code_analysis_recommendation"])],
              db |-> record_progress_metric(developed, user_id, "learning_session", 1, now)]

(***************************************************************************)
(* LLMEnhancedAnalyzer: the analysis of CodeAnalyzer with what the         *)
(* language model says about the code merged into it.  Of the instance,    *)
(* use_llm is kept with the tables of CodeAnalyzer.  A response of the     *)
(* model is a text: an opening, a body and a closing; the body is a JSON   *)
(* object with some members, a JSON array, or prose.                       *)
(***************************************************************************)
\* LLMEnhancedAnalyzer.__init__
NewLLMEnhancedAnalyzer(api_key) ==
    [algorithm_patterns |-> AlgorithmPatterns,
     data_structure_patterns |-> DataStructurePatterns,
     complexity_indicators |-> [time |-> TimeIndicators, space |-> SpaceIndicators],
     use_llm |-> api_key]

\* the fences of a markdown code block: three backticks, with and without
\* the name of the language
FenceJson == "fence json"
Fence == "fence"

\* the dict _parse_llm_response returns for a text that is not JSON
UnparsedResponse ==
    [algorithm_explanation |-> "Unable to parse LLM response",
     optimization_suggestions |-> << >>,
     learning_concepts |-> << >>,
     alternative_approaches |-> << >>,
     code_quality_feedback |-> "Response parsing failed",
     complexity_explanation |-> "Unknown",
     interview_tips |-> << >>,
     related_problems |-> << >>,
     conceptual_gaps |-> << >>,
     positive_aspects |-> << >>]

\* _parse_llm_response: an opening fence with the word json and a closing
\* fence are cut off; what is left is JSON when it is a JSON body with no
\* fence left before or after it
parse_llm_response(response) ==
    LET opening == IF response.opening = FenceJson THEN "" ELSE response.opening
        closing == IF response.closing = Fence THEN "" ELSE response.closing
    IN  IF opening = "" /\ closing = "" /\ response.body.json THEN response.body.value
        ELSE [json_object |-> TRUE, members |-> UnparsedResponse]

\* _get_llm_insights: a call that fails gives the empty dict
get_llm_insights(reply) ==
    IF reply.failed THEN [json_object |-> TRUE, members |-> EmptyDict]
    ELSE parse_llm_response(reply.response)

\* the members of llm that _merge_analyses reads with llm.get(name, [])
educational_insights(llm) ==
    [interview_tips |-> Get(llm, "interview_tips", << >>),
     related_problems |-> Get(llm, "related_problems", << >>),
     conceptual_gaps |-> Get(llm, "conceptual_gaps", << >>),
     positive_aspects |-> Get(llm, "positive_aspects", << >>)]

\* a merge that puts the suggestions of the model in the place of those of
\* the analyzer
merge_over_suggestions(traditional, llm) ==
    (IF "optimization_suggestions" \in DOMAIN llm
     THEN "suggestions" :> llm["optimization_suggestions"] ELSE EmptyDict)
    @@ ("llm_analysis" :> llm @@ "educational_insights" :> educational_insights(llm))
    @@ traditional

\* _merge_analyses, for llm a dict: an assignment to a key of the copy
\* replaces what the key held
merge_analyses(traditional, llm) ==
    (IF "learning_concepts" \in DOMAIN llm
     THEN "learning_concepts" :> llm["learning_concepts"] ELSE EmptyDict)
    @@ (IF "optimization_suggestions" \in DOMAIN llm
        THEN "optimization_suggestions" :> llm["optimization_suggestions"] ELSE EmptyDict)
    @@ (IF "algorithm_explanation" \in DOMAIN llm
        THEN "enhanced_algorithm_explanation" :> llm["algorithm_explanation"]
        ELSE EmptyDict)
    @@ ("llm_analysis" :> llm @@ "educational_insights" :> educational_insights(llm))
    @@ traditional

\* analyze_code_with_llm, after its call of analyze_code has returned:
\* llm.get of a parsed response that is not a JSON object raises
analyze_code_with_llm(instance, traditional, reply) ==
    IF ~instance.use_llm THEN [outcome |-> "traditional", result |-> traditional]
    ELSE LET llm == get_llm_insights(reply)
         IN  IF llm.json_object
             THEN [outcome |-> "merged", result |-> merge_analyses(traditional, llm.members)]
             ELSE [outcome |-> "raised", result |-> None]

(***************************************************************************)
(* Inputs and idle states of the engines.                                  *)
(***************************************************************************)
GapConcepts == {"array", "stack", "recursion", "memoization", "dfs"}

GapInputs ==
    {MissingFundamental(c) : c \in GapConcepts}
        \cup {Gap(c, "pattern", "medium", [text |-> "pattern", concept |-> c]) :
                 c \in GapConcepts}
        \cup {SuboptimalComplexity}

Row(user_id, patterns_used, json, items) ==
    Submission(user_id, patterns_used, [json |-> json, items |-> items], Null, Null, 0)

\* rows of the Submission table of learner 1
SubmissionRows ==
    { Row(1, <<"array">>, FALSE, <<"recursion">>),
      Row(1, <<"array", "linked_list">>, FALSE, << >>),
      Row(1, << >>, TRUE, <<"recursion", "hash_table">>) }

\* learner 1 is registered, learner 2 is not
UserIds == {1, 2}
Users == (1 :> [skill_level |-> "advanced"])

NoRecommendCall == [user_id |-> 0, knowledge_gaps |-> << >>]

RecommenderIdle ==
    /\ engine = NewRecommendationEngine
    /\ users = Users
    /\ submissions = << >>
    /\ call = NoRecommendCall
    /\ recommendations = << >>


NoTrend == [of |-> "", result |-> [trend |-> ""]]

TrackerIdle ==
    /\ metrics = << >>
    /\ milestones = track_milestones(<< >>)
    /\ trend = NoTrend

\* EnhancedLearningTracker.__init__: the storage of its RecommendationTracker
NewEnhancedLearningTracker == [recommendations_storage |-> << >>]

NoRecommendations == [knowledge_gaps |-> << >>, concepts_to_learn |-> << >>]

NotEnriched == [outcome |-> "", result |-> None]

SessionIdle ==
    /\ tracker = NewEnhancedLearningTracker
    /\ generated = NoRecommendations
    /\ threads = << >>
    /\ enriched = NotEnriched

(***************************************************************************)
(* Initial state and specifications of the analyzer.                       *)
(***************************************************************************)
NoAnalysis ==
    [language |-> "", complexity_score |-> 0, quality_score |-> 0,
     patterns |-> << >>, algorithms |-> << >>, data_structures |-> << >>,
     time_complexity |-> "Unknown", space_complexity |-> "Unknown",
     metrics |-> EmptyDict, issues |-> << >>, suggestions |-> << >>]

NoCall ==
    [called |-> FALSE, code |-> << >>, language |-> "", analysis |-> NoAnalysis,
     between |-> FALSE]

\* CodeAnalyzer.__init__
NewCodeAnalyzer ==
    [algorithm_patterns |-> AlgorithmPatterns,
     data_structure_patterns |-> DataStructurePatterns,
     complexity_indicators |-> [time |-> TimeIndicators, space |-> SpaceIndicators]]

AnalyzerIdle ==
    /\ analyzer = NewCodeAnalyzer
    /\ code = << >>
    /\ language = ""
    /\ analysis = NoAnalysis
    /\ earlier = NoCall

AnalyzerInit ==
    /\ AnalyzerIdle
    /\ pc = "idle"
    /\ RecommenderIdle
    /\ TrackerIdle
    /\ SessionIdle

\* the first call on a new instance, on a program of nested blocks
AnalyzeStructure ==
    /\ pc = "idle"
    /\ \E n \in 0..MaxLines : \E lines \in Programs(StructureStatements, n) :
          \E lang \in Languages : analyze_code(lines, lang)
    /\ UNCHANGED <<earlier, recommenderVars, trackerVars, sessionVars>>

\* the first call on a new instance, on a program over the whole vocabulary
AnalyzeText ==
    /\ pc = "idle"
    /\ \E n \in 0..MaxTextLines : \E lines \in Programs(Statements, n) :
          \E lang \in Languages : analyze_code(lines, lang)
    /\ UNCHANGED <<earlier, recommenderVars, trackerVars, sessionVars>>

\* a dictionary, a loop and a store by key
DictionaryStatements == {StmtDict, StmtBraces, StmtFor, StmtStore}

\* the first call on a new instance, on a program that fills a dictionary
AnalyzeSinglePass ==
    /\ pc = "idle"
    /\ \E n \in 1..MaxLines : \E lines \in Programs(DictionaryStatements, n) :
          \E lang \in Languages : analyze_code(lines, lang)
    /\ UNCHANGED <<earlier, recommenderVars, trackerVars, sessionVars>>

Init == AnalyzerInit
Next == AnalyzeStructure \/ AnalyzeText \/ AnalyzeSinglePass
Spec == Init /\ [][Next]_vars

(***************************************************************************)
(* Two calls on one instance: a call that returned is kept, and any calls  *)
(* follow it.                                                              *)
(***************************************************************************)
HistoryStatements == {StmtPass, StmtLongSum}

\* any call; a call with other arguments than the kept one is noted
HistoryAnalyzeStep ==
    \E n \in 0..MaxHistoryLines : \E lines \in Programs(HistoryStatements, n) :
        \E lang \in Languages :
            /\ analyze_code(lines, lang)
            /\ earlier' = IF earlier.called
                              /\ <<lines, lang>> # <<earlier.code, earlier.language>>
                           THEN [earlier EXCEPT !.between = TRUE]
                           ELSE earlier
            /\ UNCHANGED <<recommenderVars, trackerVars, sessionVars>>

Remember ==
    /\ pc = "returned"
    /\ ~earlier.called
    /\ earlier' = [called |-> TRUE, code |-> code, language |-> language,
                   analysis |-> analysis, between |-> FALSE]
    /\ UNCHANGED <<analyzerVars, pc, recommenderVars, trackerVars, sessionVars>>

NextHistory == HistoryAnalyzeStep \/ Remember
SpecHistory == Init /\ [][NextHistory]_vars

(***************************************************************************)
(* The two score functions on their own, over analyses with any complexity *)
(* class, cyclomatic complexity and numbers of issues, patterns and        *)
(* algorithms.                                                             *)
(***************************************************************************)
ComplexityClasses ==
    {"O(1)", "O(log n)", "O(n)", "O(n log n)", "O(n^2)", "O(n^3)", "O(2^n)", "Unknown"}

SomeIssues(k) == [i \in 1..k |-> [msg |-> "Deep nesting detected", n |-> i]]

ScoreInputs ==
    { [NoAnalysis EXCEPT
          !.time_complexity = tc,
          !.metrics = IF c = 0 THEN ("lines_of_code" :> 1)
                      ELSE ("lines_of_code" :> 1 @@ "cyclomatic_complexity" :> c),
          !.issues = SomeIssues(k),
          !.patterns = SubSeq(NamesOf(PatternChecks), 1, p),
          !.algorithms = SubSeq(NamesOf(AlgorithmPatterns), 1, g)] :
        tc \in ComplexityClasses, c \in 0..MaxCyclomatic, k \in 0..MaxIssues,
        p \in 0..MaxPatterns, g \in 0..MaxAlgorithms }

ScoreInit ==
    /\ analyzer = NewCodeAnalyzer
    /\ code = << >>
    /\ language = ""
    /\ analysis \in ScoreInputs
    /\ pc = "scoring"
    /\ earlier = NoCall
    /\ RecommenderIdle
    /\ TrackerIdle
    /\ SessionIdle

ScoreStep ==
    /\ pc = "scoring"
    /\ analysis' = calculate_scores(analysis)
    /\ pc' = "scored"
    /\ UNCHANGED <<analyzer, code, language, earlier, recommenderVars, trackerVars, sessionVars>>

SpecScore == ScoreInit /\ [][ScoreStep]_vars


(***************************************************************************)
(* The recommender on its own: one call of _recommend_concepts, for any    *)
(* list of gaps and any stored submissions of the learner.                 *)
(***************************************************************************)
RecommendInit ==
    /\ AnalyzerIdle
    /\ pc = "idle"
    /\ engine = NewRecommendationEngine
    /\ users = Users
    /\ \E n \in 0..MaxSubmissions : submissions \in [1..n -> SubmissionRows]
    /\ call = NoRecommendCall
    /\ recommendations = << >>
    /\ TrackerIdle
    /\ SessionIdle

RecommendConcepts ==
    /\ pc = "idle"
    /\ \E user_id \in UserIds : \E n \in 0..MaxGaps :
          \E knowledge_gaps \in [1..n -> GapInputs] :
            /\ call' = [user_id |-> user_id, knowledge_gaps |-> knowledge_gaps]
            /\ recommendations' = recommend_concepts(user_id, knowledge_gaps)
    /\ pc' = "recommended"
    /\ UNCHANGED <<analyzerVars, earlier, engine, users, submissions, trackerVars, sessionVars>>

SpecRecommend == RecommendInit /\ [][RecommendConcepts]_vars

(***************************************************************************)
(* Milestones over a growing history: submissions of one learner are       *)
(* stored one after another, and the milestones are reported at any time.  *)
(***************************************************************************)
QualityScores == {Some(65), Some(95)}

MilestonesInit ==
    /\ AnalyzerIdle
    /\ pc = "idle"
    /\ RecommenderIdle
    /\ TrackerIdle
    /\ SessionIdle

\* a submission is stored with the time of its storing
StoreSubmission ==
    /\ Len(submissions) < MaxHistory
    /\ \E quality_score \in QualityScores :
          submissions' = Append(submissions,
              Submission(1, << >>, [json |-> FALSE, items |-> << >>],
                         quality_score, Null, Len(submissions) + 1))
    /\ UNCHANGED <<analyzerVars, pc, earlier, engine, users, call, recommendations,
                   trackerVars, sessionVars>>

TrackMilestones ==
    /\ milestones' = track_milestones(submissions)
    /\ UNCHANGED <<analyzerVars, pc, earlier, recommenderVars, metrics, trend, sessionVars>>

NextMilestones == StoreSubmission \/ TrackMilestones
SpecMilestones == MilestonesInit /\ [][NextMilestones]_vars

(***************************************************************************)
(* The trend analyses on their own: one call of one of the three, over any *)
(* recorded metrics or any chronological submissions of one learner.       *)
(***************************************************************************)
SampleValues == {40, 41, 42, 55, 70}
MetricNames == {"code_quality", "complexity_handling"}
ProgressMetrics == [metric_name : MetricNames, metric_value : SampleValues]

SubmissionDays == {0, 6, 7, 14}

TrendSubmissions ==
    { Submission(1, << >>, [json |-> FALSE, items |-> << >>], q, c, day) :
        q \in {Null, Some(40), Some(70)}, c \in {Some(40), Some(70)},
        day \in SubmissionDays }

Chronological(subs) ==
    \A i \in DOMAIN subs : i > 1 => subs[i - 1].submitted_at <= subs[i].submitted_at

TrendInit ==
    /\ AnalyzerIdle
    /\ pc = "idle"
    /\ engine = NewRecommendationEngine
    /\ users = Users
    /\ call = NoRecommendCall
    /\ recommendations = << >>
    /\ milestones = track_milestones(<< >>)
    /\ trend = NoTrend
    /\ SessionIdle
    /\ \E n \in 0..MaxSamples :
          \/ metrics \in [1..n -> ProgressMetrics] /\ submissions = << >>
          \/ /\ metrics = << >>
             /\ submissions \in {subs \in [1..n -> TrendSubmissions] : Chronological(subs)}

Analyzed(of, result) ==
    /\ pc = "idle"
    /\ trend' = [of |-> of, result |-> result]
    /\ pc' = "analyzed"
    /\ UNCHANGED <<analyzerVars, earlier, recommenderVars, metrics, milestones, sessionVars>>

AnalyzeQualityTrend == Analyzed("quality", analyze_quality_trend(metrics))
AnalyzeComplexityTrend == Analyzed("complexity", analyze_complexity_trend(metrics))
TrackSkillProgression == Analyzed("progression", track_skill_progression(submissions))

NextTrend == AnalyzeQualityTrend \/ AnalyzeComplexityTrend \/ TrackSkillProgression
SpecTrend == TrendInit /\ [][NextTrend]_vars

(***************************************************************************)
(* generate_recommendations on its own: one call, for a request without a  *)
(* learner, a registered learner or an unknown id, on any analysis and any *)
(* stored submissions of learner 1.                                        *)
(***************************************************************************)
\* analyses with the tags gap identification reads, in table order
AnalysisInputs ==
    { LET a == [NoAnalysis EXCEPT !.language = "python",
                                  !.data_structures = ds,
                                  !.algorithms = al,
                                  !.patterns = pt,
                                  !.time_complexity = tc]
      IN  [a EXCEPT !.suggestions = generate_suggestions(a)] :
        ds \in {<< >>, <<"array">>, <<"array", "hash_table">>,
                <<"array", "hash_table", "linked_list">>},
        al \in {<< >>, <<"dynamic_programming">>},
        pt \in {<< >>, <<"two_pointers">>},
        tc \in {"O(n)", "O(n^2)"} }

\* learner 1 as a beginner
Beginners == (1 :> [skill_level |-> "beginner"])

GenerateInit ==
    /\ analyzer = NewCodeAnalyzer
    /\ code = << >>
    /\ language = ""
    /\ analysis \in AnalysisInputs
    /\ earlier = NoCall
    /\ pc = "idle"
    /\ engine = NewRecommendationEngine
    /\ users \in {Users, Beginners}
    /\ \E n \in 0..MaxSubmissions : submissions \in [1..n -> SubmissionRows]
    /\ call = NoRecommendCall
    /\ recommendations = << >>
    /\ TrackerIdle
    /\ SessionIdle

GenerateRecommendations ==
    /\ pc = "idle"
    /\ \E user_id \in UserIds \cup {NoUserId} :
          /\ call' = [user_id |-> user_id, knowledge_gaps |-> << >>]
          /\ generated' = generate_recommendations(user_id, analysis)
    /\ pc' = "generated"
    /\ UNCHANGED <<analyzerVars, earlier, engine, users, submissions, recommendations,
                   trackerVars, tracker, threads, enriched>>

SpecGenerate == GenerateInit /\ [][GenerateRecommendations]_vars

(***************************************************************************)
(* Calls side by side.  Each thread makes one call of analyze_code,        *)
(* generate_recommendations or analyze_learning_trajectory; a call is a    *)
(* sequence of steps, one for every read of the tables the threads share,  *)
(* and the steps of the threads are taken in any order.  What a step       *)
(* computes is kept in the locals of its thread.                           *)
(***************************************************************************)
Threads == 1..MaxThreads

NoThread ==
    [op |-> "", pc |-> "idle", user_id |-> NoUserId, code |-> << >>, language |-> "",
     code_analysis |-> NoAnalysis, analysis |-> NoAnalysis, knowledge_gaps |-> << >>,
     concept_recommendations |-> << >>, metrics |-> << >>, result |-> None,
     overlapped |-> FALSE]

InProgress(t) == threads[t].pc \notin {"idle", "done", "raised"}

\* a step of thread t to position pc_, with the locals it sets
Step(t, pc_, changed) ==
    threads' = [threads EXCEPT ![t] =
                   [name \in DOMAIN NoThread |->
                       IF name = "pc" THEN pc_
                       ELSE IF name = "overlapped"
                       THEN threads[t].overlapped
                               \/ \E o \in Threads \ {t} : InProgress(o)
                       ELSE IF name \in DOMAIN changed THEN changed[name]
                       ELSE threads[t][name]]]

Shared ==
    <<analyzerVars, pc, earlier, recommenderVars, trackerVars, tracker, generated, enriched>>

\* analyze_code: the dict is created
CallAnalyze(t) ==
    /\ threads[t].pc = "idle"
    /\ \E n \in 0..MaxHistoryLines : \E lines \in Programs(HistoryStatements, n) :
          Step(t, "created",
               [op |-> "analyze", code |-> lines, language |-> "Python",
                analysis |-> new_analysis("Python")])
    /\ UNCHANGED Shared

\* analyze_code: the dict is filled, or the parse raises
AnalyzeFill(t) ==
    /\ threads[t].pc = "created"
    /\ IF Raises(threads[t].code, threads[t].language)
       THEN Step(t, "raised", [op |-> "analyze"])
       ELSE Step(t, "filled",
                 [analysis |-> analyze_filled(threads[t].code, threads[t].language,
                                              threads[t].analysis)])
    /\ UNCHANGED Shared

\* analyze_code: the scores are calculated and the dict is returned
AnalyzeReturn(t) ==
    /\ threads[t].pc = "filled"
    /\ Step(t, "done", [result |-> calculate_scores(threads[t].analysis)])
    /\ UNCHANGED Shared

\* analyses handed to generate_recommendations
ThreadAnalyses ==
    {a \in AnalysisInputs :
        /\ a.algorithms = << >>
        /\ a.patterns = << >>
        /\ a.time_complexity = "O(n)"
        /\ Len(a.data_structures) \in {0, 2}}

\* generate_recommendations is called
CallRecommend(t) ==
    /\ threads[t].pc = "idle"
    /\ \E user_id \in {NoUserId, 1} : \E code_analysis \in ThreadAnalyses :
          Step(t, "called",
               [op |-> "recommend", user_id |-> user_id, code_analysis |-> code_analysis])
    /\ UNCHANGED Shared

\* generate_recommendations: the learner is looked up; a request without a
\* registered learner is answered by the anonymous method, which reads no table
GetUser(t) ==
    /\ threads[t].pc = "called"
    /\ IF is_anonymous(threads[t].user_id)
       THEN Step(t, "done",
                 [result |-> generate_anonymous_recommendations(threads[t].code_analysis)])
       ELSE Step(t, "user", [op |-> "recommend"])
    /\ UNCHANGED Shared

\* generate_recommendations: _identify_knowledge_gaps reads the submissions
IdentifyGaps(t) ==
    /\ threads[t].pc = "user"
    /\ Step(t, "gaps",
            [knowledge_gaps |->
                identify_knowledge_gaps(threads[t].user_id, threads[t].code_analysis)])
    /\ UNCHANGED Shared

\* generate_recommendations: _recommend_concepts reads the learner and the
\* submissions
ThreadRecommendConcepts(t) ==
    /\ threads[t].pc = "gaps"
    /\ Step(t, "concepts",
            [concept_recommendations |->
                recommend_concepts(threads[t].user_id, threads[t].knowledge_gaps)])
    /\ UNCHANGED Shared

\* a return that also stores a submission of the learner
RecommendReturnStoring(t) ==
    /\ threads[t].pc = "concepts"
    /\ Step(t, "done",
            [result |-> registered_recommendations(threads[t].code_analysis,
                                                   threads[t].knowledge_gaps,
                                                   threads[t].concept_recommendations)])
    /\ submissions' = Append(submissions,
                             Row(threads[t].user_id, <<"array", "linked_list">>,
                                 FALSE, << >>))
    /\ UNCHANGED <<analyzerVars, pc, earlier, engine, users, call, recommendations,
                   trackerVars, tracker, generated, enriched>>

\* generate_recommendations: the other lists are built and the dict is returned
RecommendReturn(t) ==
    /\ threads[t].pc = "concepts"
    /\ Step(t, "done",
            [result |-> registered_recommendations(threads[t].code_analysis,
                                                   threads[t].knowledge_gaps,
                                                   threads[t].concept_recommendations)])
    /\ UNCHANGED Shared

\* analyze_learning_trajectory is called
CallTrajectory(t) ==
    /\ threads[t].pc = "idle"
    /\ \E user_id \in UserIds : Step(t, "asked", [op |-> "trajectory", user_id |-> user_id])
    /\ UNCHANGED Shared

\* analyze_learning_trajectory: the query of the learner's metrics
QueryMetrics(t) ==
    /\ threads[t].pc = "asked"
    /\ Step(t, "queried", [metrics |-> metrics_of(threads[t].user_id)])
    /\ UNCHANGED Shared

\* analyze_learning_trajectory: the trends are computed and returned
TrajectoryReturn(t) ==
    /\ threads[t].pc = "queried"
    /\ Step(t, "done", [result |-> trajectory_of(threads[t].metrics)])
    /\ UNCHANGED Shared

\* the metrics of learner 1, as two tracked sessions record them
ThreadMetrics ==
    << ProgressMetric(1, "complexity_handling", 40, 0),
       ProgressMetric(1, "code_quality", 40, 0),
       ProgressMetric(1, "learning_session", 1, 0),
       ProgressMetric(1, "complexity_handling", 70, 7),
       ProgressMetric(1, "code_quality", 55, 7),
       ProgressMetric(1, "skill_clean_code", 1, 7),
       ProgressMetric(1, "learning_session", 1, 7) >>

ConcurrentInit ==
    /\ AnalyzerIdle
    /\ pc = "idle"
    /\ engine = NewRecommendationEngine
    /\ users = Users
    /\ submissions \in {<< >>, <<Row(1, <<"array">>, FALSE, <<"recursion">>)>>}
    /\ call = NoRecommendCall
    /\ recommendations = << >>
    /\ metrics \in {<< >>, SubSeq(ThreadMetrics, 1, 3), ThreadMetrics}
    /\ milestones = track_milestones(<< >>)
    /\ trend = NoTrend
    /\ tracker = NewEnhancedLearningTracker
    /\ generated = NoRecommendations
    /\ threads = [t \in Threads |-> NoThread]
    /\ enriched = NotEnriched

NextConcurrent ==
    \E t \in Threads :
        \/ CallAnalyze(t) \/ AnalyzeFill(t) \/ AnalyzeReturn(t)
        \/ CallRecommend(t) \/ GetUser(t) \/ IdentifyGaps(t)
        \/ ThreadRecommendConcepts(t) \/ RecommendReturn(t)
        \/ CallTrajectory(t) \/ QueryMetrics(t) \/ TrajectoryReturn(t)

SpecConcurrent == ConcurrentInit /\ [][NextConcurrent]_vars

(***************************************************************************)
(* The engines in use: calls of analyze_code, generate_recommendations and *)
(* track_code_analysis_session in any order on one instance of each.       *)
(***************************************************************************)
\* a sound and a poor analysis, with their scores
SessionAnalyses ==
    { calculate_scores([NoAnalysis EXCEPT
          !.language = "python",
          !.time_complexity = tc,
          !.metrics = ("lines_of_code" :> 1 @@ "cyclomatic_complexity" :> c),
          !.issues = SomeIssues(k)]) :
        <<tc, c, k>> \in {<<"O(n log n)", 1, 0>>, <<"O(2^n)", MaxCyclomatic, MaxIssues>>} }

\* the day of the next session: the day of the last one, or forty days on
SessionDays ==
    LET last == IF Len(metrics) = 0 THEN 0 ELSE metrics[Len(metrics)].recorded_at
    IN  {last, last + RecentDays + 10}

Sessions == Len(SelectSeq(metrics, LAMBDA m : m.metric_name = "learning_session"))

SessionInit ==
    /\ AnalyzerIdle
    /\ pc = "idle"
    /\ engine = NewRecommendationEngine
    /\ users \in {Users, Beginners}
    /\ submissions = << >>
    /\ call = NoRecommendCall
    /\ recommendations = << >>
    /\ TrackerIdle
    /\ SessionIdle

SessionAnalyze ==
    /\ \E n \in 0..MaxHistoryLines : \E lines \in Programs(HistoryStatements, n) :
          \E lang \in Languages : analyze_code(lines, lang)
    /\ UNCHANGED <<earlier, recommenderVars, trackerVars, sessionVars>>

SessionGenerate ==
    /\ pc = "returned"
    /\ \E user_id \in UserIds \cup {NoUserId} :
          /\ call' = [user_id |-> user_id, knowledge_gaps |-> << >>]
          /\ generated' = generate_recommendations(user_id, analysis)
    /\ UNCHANGED <<analyzerVars, pc, earlier, engine, users, submissions, recommendations,
                   trackerVars, tracker, threads, enriched>>

TrackCodeAnalysisSession ==
    /\ Sessions < MaxSessions
    /\ \E user_id \in UserIds \cup {NoUserId} : \E analysis_results \in SessionAnalyses :
        \E now \in SessionDays :
          LET tracked == track_code_analysis_session(
                             tracker, [users |-> users, metrics |-> metrics], user_id,
                             analysis_results,
                             generate_recommendations(user_id, analysis_results), now)
          IN  /\ tracker' = tracked.tracker
              /\ users' = tracked.db.users
              /\ metrics' = tracked.db.metrics
    /\ UNCHANGED <<analyzerVars, pc, earlier, engine, submissions, call, recommendations,
                   milestones, trend, generated, threads, enriched>>

NextSession == SessionAnalyze \/ SessionGenerate \/ TrackCodeAnalysisSession
SpecSession == SessionInit /\ [][NextSession]_vars

(***************************************************************************)
(* One call of analyze_code_with_llm on a new LLMEnhancedAnalyzer, made    *)
(* with or without an API key.  The language model is outside the program: *)
(* its call fails, or it answers with any of the texts of Responses.       *)
(***************************************************************************)
\* what a JSON object of the model holds under each of its members; the
\* members the prompt asks for, and two with the name of a key of the analysis
LlmMembers ==
    [algorithm_explanation |-> "A single pass over the input",
     optimization_suggestions |-> <<"Use a set">>,
     learning_concepts |-> <<"hashing">>,
     interview_tips |-> <<"Explain the trade-off">>,
     time_complexity |-> "O(1)",
     suggestions |-> <<"Rewrite it">>]

JsonObject(names) ==
    [json |-> TRUE,
     value |-> [json_object |-> TRUE, members |-> [k \in names |-> LlmMembers[k]]]]

JsonArray == [json |-> TRUE, value |-> [json_object |-> FALSE, members |-> EmptyDict]]

Prose == [json |-> FALSE, value |-> [json_object |-> FALSE, members |-> EmptyDict]]

Responses ==
    [opening : {"", FenceJson, Fence}, closing : {"", Fence},
     body : {JsonObject(names) : names \in SUBSET DOMAIN LlmMembers}
            \cup {JsonArray, Prose}]

NoResponse == [opening |-> "", closing |-> "", body |-> Prose]

Replies ==
    {[failed |-> TRUE, response |-> NoResponse]}
    \cup {[failed |-> FALSE, response |-> r] : r \in Responses}

\* a dictionary, loops and a store by key
EnrichStatements == {StmtDict, StmtFor, StmtForPass, StmtStore}

EnrichInit ==
    /\ \E api_key \in BOOLEAN : analyzer = NewLLMEnhancedAnalyzer(api_key)
    /\ code = << >>
    /\ language = ""
    /\ analysis = NoAnalysis
    /\ earlier = NoCall
    /\ pc = "idle"
    /\ RecommenderIdle
    /\ TrackerIdle
    /\ SessionIdle

\* analyze_code_with_llm: the analysis of analyze_code, then the merge
AnalyzeCodeWithLlm ==
    /\ pc = "idle"
    /\ \E n \in 0..MaxTextLines : \E lines \in Programs(EnrichStatements, n) :
          \E lang \in Languages : analyze_code(lines, lang)
    /\ \E reply \in Replies :
          enriched' = IF pc' = "raised" THEN [outcome |-> "raised", result |-> None]
                      ELSE analyze_code_with_llm(analyzer, analysis', reply)
    /\ UNCHANGED <<earlier, recommenderVars, trackerVars, tracker, generated, threads>>

SpecEnrich == EnrichInit /\ [][AnalyzeCodeWithLlm]_vars

(***************************************************************************)
(* _recommend_resources on the list _recommend_concepts returns, for gaps  *)
(* of the concepts that have learning resources, a learner who is a        *)
(* beginner or advanced, and any stored submissions of learner 1.          *)
(***************************************************************************)
ResourceGaps == {MissingFundamental(c) : c \in DOMAIN load_learning_resources}

\* the rows of SubmissionRows, and one with the prerequisites of
\* dynamic_programming and binary_search
ResourceRows ==
    SubmissionRows \cup {Row(1, <<"array", "recursion", "memoization">>, FALSE, << >>)}

ResourcesInit ==
    /\ AnalyzerIdle
    /\ pc = "idle"
    /\ engine = NewRecommendationEngine
    /\ users \in {Users, Beginners}
    /\ \E n \in 0..MaxSubmissions : submissions \in [1..n -> ResourceRows]
    /\ call = NoRecommendCall
    /\ recommendations = << >>
    /\ TrackerIdle
    /\ SessionIdle

RecommendResources ==
    /\ pc = "idle"
    /\ \E user_id \in UserIds : \E n \in 0..MaxGaps :
          \E knowledge_gaps \in [1..n -> ResourceGaps] :
            LET concept_recommendations == recommend_concepts(user_id, knowledge_gaps)
            IN  /\ call' = [user_id |-> user_id, knowledge_gaps |-> knowledge_gaps]
                /\ recommendations' = concept_recommendations
                /\ generated' =
                      [knowledge_gaps |-> knowledge_gaps,
                       concepts_to_learn |-> concept_recommendations,
                       recommended_resources |->
                           recommend_resources(concept_recommendations,
                                               Len(concept_recommendations))]
    /\ pc' = "resources"
    /\ UNCHANGED <<analyzerVars, earlier, engine, users, submissions, trackerVars,
                   tracker, threads, enriched>>

SpecResources == ResourcesInit /\ [][RecommendResources]_vars
(***************************************************************************)
(* C1: every result of the score functions has both scores within 0..100.  *)
(***************************************************************************)
C1_ScoresInRange ==
    pc \in {"scored", "returned"} =>
        /\ 0 <= analysis.complexity_score /\ analysis.complexity_score <= 100
        /\ 0 <= analysis.quality_score /\ analysis.quality_score <= 100

\* both clamps act: the penalties exceed 100 and the bonuses exceed the issues
C1_Witness ==
    /\ pc = "scored"
    /\ UnclampedQualityScore(analysis) > 100
    /\ analysis.quality_score = 100
    /\ Len(analysis.issues) > 0

(***************************************************************************)
(* C2: analyze_code never ends in an error; when the parse of a python     *)
(* source fails the generic path is taken, one issue records the failure   *)
(* and a complete result is returned.                                      *)
(***************************************************************************)
ParseFails == Lower(Chars[language]) = Chars["python"] /\ ast_parse(code).outcome # "ok"

C2_NeverRaises ==
    /\ pc # "raised"
    /\ (pc = "returned" /\ ParseFails) =>
          /\ Len(analysis.issues) = 1
          /\ analysis.issues[1].msg = "Syntax error"
          /\ DOMAIN analysis.metrics = {"lines_of_code"}
          /\ analysis.time_complexity = estimate_time_complexity_regex(code)
          /\ analysis.space_complexity = estimate_space_complexity_regex(code)

\* a parse failure that is a SyntaxError: one issue, then the generic path
C2_Witness ==
    /\ pc = "returned"
    /\ ParseFails
    /\ Len(analysis.issues) = 1
    /\ analysis.issues[1].msg = "Syntax error"

RECURSIVE LoopsAround(_, _)
LoopsAround(lines, i) ==
    LET outer == {j \in 1..i - 1 : lines[j].indent < lines[i].indent}
        here == IF Kind(lines[i]) \in {"For", "While"} THEN 1 ELSE 0
    IN  IF outer = {} THEN here
        ELSE here + LoopsAround(lines,
                        CHOOSE j \in outer :
                            /\ \A k \in outer : k <= j)

DeepestLoopNesting(lines) ==
    IF Len(lines) = 0 THEN 0
    ELSE LET depths == {LoopsAround(lines, i) : i \in DOMAIN lines}
         IN  CHOOSE d \in depths : \A e \in depths : e <= d

IsPython == Lower(Chars[language]) = Chars["python"]

QuadraticSubmission ==
    /\ pc = "returned"
    /\ IsPython
    /\ ast_parse(code).outcome = "ok"
    /\ DeepestLoopNesting(code) = 2
    /\ ~InList("hash_table", detect_data_structures(code))

IsPerformanceGap(gap) ==
    /\ gap.concept = "algorithmic_optimization"
    /\ gap.category = "performance"
    /\ gap.severity = "medium"

C10_NestedLoopsQuadratic ==
    QuadraticSubmission =>
        /\ analysis.time_complexity = "O(n^2)"
        /\ \E g \in Range(identify_anonymous_knowledge_gaps(analysis)) : IsPerformanceGap(g)
        /\ \A user_id \in UserIds :
              \E g \in Range(identify_knowledge_gaps(user_id, analysis)) : IsPerformanceGap(g)

\* a loop in a loop, followed by a third loop outside them
C10_Witness ==
    /\ QuadraticSubmission
    /\ CountKind(code, {"For", "While"}) = 3
    /\ analysis.time_complexity = "O(n^2)"
    /\ SuboptimalComplexity \in Range(identify_anonymous_knowledge_gaps(analysis))

(***************************************************************************)
(* C4: the list _recommend_concepts returns is in non-increasing priority  *)
(* (high, medium, low), entries of one priority keep the order in which    *)
(* their gaps were found, and only the first five entries of that order    *)
(* are returned.                                                           *)
(***************************************************************************)
BuiltForCall ==
    Collected(call.user_id, skill_level_of(call.user_id),
              call.knowledge_gaps, Len(call.knowledge_gaps))

OfPriority(list, priority) == SelectSeq(list, LAMBDA rec : rec.priority = priority)

C4_OrderedStableTopFive ==
    pc = "recommended" =>
        LET ordered == OfPriority(BuiltForCall, "high")
                          \o OfPriority(BuiltForCall, "medium")
                          \o OfPriority(BuiltForCall, "low")
        IN  /\ Len(recommendations) <= 5
            /\ \A i, j \in DOMAIN recommendations :
                  i < j => PriorityKey(recommendations[i]) >= PriorityKey(recommendations[j])
            /\ recommendations = SubSeq(ordered, 1, Min(5, Len(ordered)))

\* more than five entries were built, a lower priority was built before a
\* higher one, and two different entries of one priority are returned
C4_Witness ==
    /\ pc = "recommended"
    /\ Len(BuiltForCall) > 5
    /\ \E i, j \in DOMAIN BuiltForCall :
          i < j /\ PriorityKey(BuiltForCall[i]) < PriorityKey(BuiltForCall[j])
    /\ \E i, j \in DOMAIN recommendations :
          /\ i < j
          /\ recommendations[i] # recommendations[j]
          /\ recommendations[i].priority = recommendations[j].priority

(***************************************************************************)
(* C5: for a gap whose concept C is in the graph and has a prerequisite    *)
(* the learner has not mastered, the returned list has a high-priority     *)
(* entry for every such prerequisite and no entry for C.                   *)
(***************************************************************************)
Unmet(user_id, concept) ==
    LET concept_info == find_concept_in_graph(concept)
    IN  IF concept_info = None THEN {}
        ELSE Range(concept_info.prerequisites) \ user_concepts(user_id)

C5_PrerequisitesFirst ==
    pc = "recommended" =>
        \A g \in DOMAIN call.knowledge_gaps :
            LET concept == call.knowledge_gaps[g].concept
            IN  Unmet(call.user_id, concept) # {} =>
                  /\ \A prereq \in Unmet(call.user_id, concept) :
                        \E r \in DOMAIN recommendations :
                            /\ recommendations[r].concept = prereq
                            /\ recommendations[r].priority = "high"
                  /\ \A r \in DOMAIN recommendations :
                        recommendations[r].concept # concept

\* the only gap is recursion, whose prerequisite function_basics the learner
\* has not mastered, and nothing is recommended
C5_Witness ==
    /\ pc = "recommended"
    /\ Len(call.knowledge_gaps) = 1
    /\ call.knowledge_gaps[1].concept = "recursion"
    /\ Unmet(call.user_id, "recursion") = {"function_basics"}
    /\ recommendations = << >>

(***************************************************************************)
(* C6: while the history of a learner grows by appends, every milestone    *)
(* that was reported is reported again with the same date, that date is    *)
(* the date of the first submission at which the count or the quality      *)
(* threshold was reached, and no milestone id is reported twice in one     *)
(* report.                                                                 *)
(***************************************************************************)
Achieved == milestones.milestones_achieved

ThresholdOf(id) ==
    ("first_good_score" :> 60 @@ "first_great_score" :> 80 @@ "excellence" :> 90)[id]

CountOf(id) ==
    ( "10_submissions" :> 10 @@ "25_submissions" :> 25
   @@ "50_submissions" :> 50 @@ "100_submissions" :> 100 )[id]

\* the date on which the milestone was reached in the stored history
DateReached(id) ==
    IF id \in {"first_good_score", "first_great_score", "excellence"}
    THEN LET first == CHOOSE i \in DOMAIN submissions :
                         /\ OrZero(submissions[i].quality_score) >= ThresholdOf(id)
                         /\ \A j \in 1..i - 1 :
                               OrZero(submissions[j].quality_score) < ThresholdOf(id)
         IN  submissions[first].submitted_at
    ELSE submissions[CountOf(id)].submitted_at

MilestonesWellDated ==
    /\ \A k, m \in DOMAIN Achieved : Achieved[k].id = Achieved[m].id => k = m
    /\ \A k \in DOMAIN Achieved : Achieved[k].achieved_date = DateReached(Achieved[k].id)

MilestonesKept ==
    \A k \in DOMAIN Achieved :
        \E m \in DOMAIN milestones'.milestones_achieved :
            /\ milestones'.milestones_achieved[m].id = Achieved[k].id
            /\ milestones'.milestones_achieved[m].achieved_date = Achieved[k].achieved_date

C6_MilestonesFireOnce == [](MilestonesWellDated) /\ [][MilestonesKept]_vars

\* a report with a count milestone and all score milestones, made before the
\* last submission, which again reaches every score threshold
C6_Witness ==
    /\ Len(Achieved) = 4
    /\ milestones.submissions_count < Len(submissions)
    /\ OrZero(submissions[Len(submissions)].quality_score) >= 90
    /\ \E k \in DOMAIN Achieved :
          /\ Achieved[k].id = "excellence"
          /\ Achieved[k].achieved_date < milestones.submissions_count

(***************************************************************************)
(* The samples a trend analysis fits: the values of its metric, or the     *)
(* weekly average scores of the submissions.                               *)
(***************************************************************************)
QualitySamples == ValuesOf(metrics, "code_quality")

SamplesFitted ==
    IF trend.of = "quality" THEN QualitySamples
    ELSE IF trend.of = "complexity" THEN ValuesOf(metrics, "complexity_handling")
    ELSE LET weeks == WeekKeys(submissions, Len(submissions))
             weekly == [w \in DOMAIN weeks |-> WeeklyScore(submissions, weeks[w])]
             product == LET RECURSIVE P(_)
                            P(n) == IF n = 0 THEN 1 ELSE P(n - 1) * weekly[n].den
                        IN  P(Len(weekly))
         IN  [w \in DOMAIN weekly |-> weekly[w].num * (product \div weekly[w].den)]

\* the least-squares slope in its centred form: the sum of the products of
\* the deviations over the sum of the squared deviations of the positions
\* (deviations taken n-fold, to stay in whole numbers)
CentredSlope(values) ==
    LET n == Len(values)
        Sx == Sum([i \in 1..n |-> i - 1], n)
        Sy == Sum(values, n)
    IN  Fraction(Sum([i \in 1..n |-> (n * (i - 1) - Sx) * (n * values[i] - Sy)], n),
                 Sum([i \in 1..n |-> (n * (i - 1) - Sx) * (n * (i - 1) - Sx)], n))

ClassOf(slope) ==
    IF 10 * slope.num > slope.den THEN "improving"
    ELSE IF 10 * slope.num < 0 - slope.den THEN "declining"
    ELSE "stable"

(***************************************************************************)
(* C7 as stated: the quality samples 40, 42, 41 are classified stable,     *)
(* with a slope of magnitude at most 0.1.                                  *)
(***************************************************************************)
C7_Example == pc = "analyzed" /\ trend.of = "quality" /\ QualitySamples = <<40, 42, 41>>

C7_StableExample ==
    C7_Example =>
        /\ trend.result.trend = "stable"
        /\ 10 * trend.result.slope.num <= trend.result.slope.den
        /\ 0 - 10 * trend.result.slope.num <= trend.result.slope.den

(***************************************************************************)
(* C7, by the fit: the quality samples 40, 42, 41 have the least-squares   *)
(* slope 0.5 and are classified improving.                                 *)
(***************************************************************************)
C7_ImprovingExample ==
    C7_Example =>
        /\ trend.result.trend = "improving"
        /\ 2 * trend.result.slope.num = trend.result.slope.den

C7_Witness == C7_Example /\ trend.result.trend = "improving"

HasLine(lines, stmts) == \E i \in DOMAIN lines : lines[i].stmt \in stmts

\* the store is in the body of the loop
StoresInLoop(lines) ==
    \E i \in DOMAIN lines : lines[i].stmt = StmtStore /\ LoopsAround(lines, i) = 1

SinglePassSubmission ==
    /\ pc = "returned"
    /\ IsPython
    /\ ast_parse(code).outcome = "ok"
    /\ DeepestLoopNesting(code) = 1
    /\ HasLine(code, {StmtDict, StmtBraces})
    /\ StoresInLoop(code)

C11_SinglePassHashTable ==
    SinglePassSubmission =>
        /\ InList("hash_table", analysis.data_structures)
        /\ analysis.time_complexity = "O(n)"

\* the dictionary is created by calling dict, and is recognised
C11_Witness ==
    /\ SinglePassSubmission
    /\ ~HasLine(code, {StmtBraces})
    /\ InList("hash_table", analysis.data_structures)
    /\ analysis.time_complexity = "O(n)"

(***************************************************************************)
(* C12: the list _recommend_concepts returns for gaps of different         *)
(* concepts has every concept at most once, and the entry kept for a       *)
(* concept has the highest priority of the entries built for it.           *)
(***************************************************************************)
DistinctGaps ==
    \A i, j \in DOMAIN call.knowledge_gaps :
        i # j => call.knowledge_gaps[i].concept # call.knowledge_gaps[j].concept

C12_ConceptsOnce ==
    (pc = "recommended" /\ DistinctGaps) =>
        /\ \A i, j \in DOMAIN recommendations :
              i # j => recommendations[i].concept # recommendations[j].concept
        /\ \A r \in DOMAIN recommendations : \A b \in DOMAIN BuiltForCall :
              BuiltForCall[b].concept = recommendations[r].concept
                  => PriorityKey(BuiltForCall[b]) <= PriorityKey(recommendations[r])

\* two gaps of different concepts share a prerequisite the learner has not
\* mastered, and the prerequisite is returned once for each
C12_Witness ==
    /\ pc = "recommended"
    /\ DistinctGaps
    /\ \E i, j \in DOMAIN recommendations :
          /\ i < j
          /\ recommendations[i].concept = recommendations[j].concept
          /\ recommendations[i].category = "prerequisite"
          /\ recommendations[j].category = "prerequisite"
          /\ recommendations[i].reason # recommendations[j].reason

(***************************************************************************)
(* C13: for a request without a registered learner, the gaps and the       *)
(* concepts to learn (concept, category, estimated time, in order) are     *)
(* those the method for registered learners gives for a beginner without   *)
(* stored submissions.                                                     *)
(***************************************************************************)
Anonymous == is_anonymous(call.user_id)

\* learner 1 is a beginner without stored submissions
BlankBeginner ==
    /\ 1 \in DOMAIN users
    /\ users[1].skill_level = "beginner"
    /\ user_concepts(1) = {}

Outline(list) ==
    [k \in DOMAIN list |->
        [concept |-> list[k].concept, category |-> list[k].category,
         estimated_time |-> list[k].estimated_time]]

C13_AnonymousAsBlankBeginner ==
    (pc = "generated" /\ Anonymous /\ BlankBeginner) =>
        LET registered == identify_knowledge_gaps(1, analysis)
        IN  /\ generated.knowledge_gaps = registered
            /\ Outline(generated.concepts_to_learn)
                  = Outline(recommend_concepts(1, registered))

\* an anonymous request whose gaps are those of the blank beginner; one of
\* them has a prerequisite in the graph, and is recommended itself
C13_Witness ==
    /\ pc = "generated"
    /\ Anonymous
    /\ BlankBeginner
    /\ generated.knowledge_gaps = identify_knowledge_gaps(1, analysis)
    /\ \E k \in DOMAIN generated.concepts_to_learn :
          generated.concepts_to_learn[k].concept = "linked_list"

(***************************************************************************)
(* C14: when calls of analyze_code, generate_recommendations and           *)
(* analyze_learning_trajectory run side by side, their steps in any order, *)
(* every call that returns has the result the same call gives on its own   *)
(* on the tables as they are, and no step changes the users, the           *)
(* submissions or the metrics.                                             *)
(***************************************************************************)
ResultAlone(t) ==
    IF threads[t].op = "analyze"
    THEN analyze_result(threads[t].code, threads[t].language)
    ELSE IF threads[t].op = "recommend"
    THEN generate_recommendations(threads[t].user_id, threads[t].code_analysis)
    ELSE analyze_learning_trajectory(threads[t].user_id)

ResultsAsAlone ==
    \A t \in DOMAIN threads : threads[t].pc = "done" => threads[t].result = ResultAlone(t)

LearnerStateKept == users' = users /\ submissions' = submissions /\ metrics' = metrics

C14_CallsIndependent == [](ResultsAsAlone) /\ [][LearnerStateKept]_vars

\* two calls for learner 1, one of generate_recommendations and one of
\* analyze_learning_trajectory, have both returned, each having taken a step
\* while the other was in progress
C14_Witness ==
    /\ \E t, o \in DOMAIN threads :
          /\ threads[t].op = "recommend" /\ threads[o].op = "trajectory"
          /\ threads[t].user_id = 1 /\ threads[o].user_id = 1
          /\ threads[t].pc = "done" /\ threads[o].pc = "done"
          /\ threads[t].overlapped /\ threads[o].overlapped
          /\ Len(threads[t].result.concepts_to_learn) > 0
          /\ "quality_trend" \in DOMAIN threads[o].result

(***************************************************************************)
(* C15: after any calls of the engines, each instance holds what it held   *)
(* when it was constructed: the signature tables, the concept graph and    *)
(* the learning resources, and nothing else that was added by a call.      *)
(***************************************************************************)
C15_EnginesAsConstructed ==
    /\ analyzer = NewCodeAnalyzer
    /\ engine = NewRecommendationEngine
    /\ tracker = NewEnhancedLearningTracker

\* after an analysis and a recommendation, and before any session of a
\* learner is tracked, nothing was kept
C15_Witness ==
    /\ pc = "returned"
    /\ Len(generated.knowledge_gaps) > 0
    /\ C15_EnginesAsConstructed

(***************************************************************************)
(* C16: what the language model adds is added only.  Whatever the analysis *)
(* of the analyzer is and whatever came of the call of the model (a        *)
(* response that was parsed, one that could not be parsed, a call that     *)
(* failed), every key of the analysis holds in the merged result the value *)
(* it holds in the analysis.                                               *)
(***************************************************************************)
CoreKept == \A k \in DOMAIN analysis : k \in DOMAIN enriched.result /\ enriched.result[k] = analysis[k]

GraphConcepts ==
    UNION {DOMAIN engine.knowledge_graph[category] : category \in DOMAIN engine.knowledge_graph}

GapsOfGraph(gaps) == SelectSeq(gaps, LAMBDA gap : gap.concept \in GraphConcepts)

NotRecommended(concept) ==
    \A j \in DOMAIN generated.concepts_to_learn :
        LET rec == generated.concepts_to_learn[j]
        IN  /\ rec.concept # concept
            /\ "reason" \in DOMAIN rec => rec.reason.concept # concept

C17_UnknownGapSkipped ==
    pc = "generated" =>
        LET gaps == generated.knowledge_gaps
        IN  /\ \A i \in DOMAIN gaps :
                  gaps[i].concept \notin GraphConcepts => NotRecommended(gaps[i].concept)
            /\ analysis.time_complexity = "O(n^2)" =>
                  \E i \in DOMAIN gaps : gaps[i].concept = "algorithmic_optimization"
            /\ generated.concepts_to_learn =
                  IF Anonymous THEN recommend_anonymous_concepts(GapsOfGraph(gaps))
                  ELSE recommend_concepts(call.user_id, GapsOfGraph(gaps))

\* a registered learner with quadratic code on an array: the gap of the
\* complexity is reported and skipped, the gap of two_pointers behind it is
\* recommended
C17_Witness ==
    /\ pc = "generated"
    /\ ~Anonymous
    /\ \E i, k \in DOMAIN generated.knowledge_gaps :
          /\ i < k
          /\ generated.knowledge_gaps[i].concept = "algorithmic_optimization"
          /\ generated.knowledge_gaps[k].concept = "two_pointers"
    /\ \E j \in DOMAIN generated.concepts_to_learn :
          generated.concepts_to_learn[j].concept = "two_pointers"
    /\ NotRecommended("algorithmic_optimization")

(***************************************************************************)
(* C18: the concept graph of the engine is well formed.  Every concept of  *)
(* every category has the fields prerequisites, leads_to, difficulty and   *)
(* importance, and no concept is reached from itself along prerequisites.  *)
(***************************************************************************)
CategoriesOf(concept) ==
    {category \in DOMAIN engine.knowledge_graph :
        concept \in DOMAIN engine.knowledge_graph[category]}

PrerequisitesOf(concept) ==
    UNION {Range(engine.knowledge_graph[category][concept].prerequisites) :
              category \in CategoriesOf(concept)}

\* what is reached from a set of concepts in at most n more steps
RECURSIVE Reached(_, _)
Reached(concepts, n) ==
    IF n = 0 THEN concepts
    ELSE Reached(concepts \cup UNION {PrerequisitesOf(c) : c \in concepts \cap GraphConcepts},
                 n - 1)

RequiredBy(concept) == Reached(PrerequisitesOf(concept), Cardinality(GraphConcepts))

C18_GraphWellFormed ==
    /\ \A category \in DOMAIN engine.knowledge_graph :
          \A concept \in DOMAIN engine.knowledge_graph[category] :
              {"prerequisites", "leads_to", "difficulty", "importance"}
                  \subseteq DOMAIN engine.knowledge_graph[category][concept]
    /\ \A concept \in GraphConcepts : concept \notin RequiredBy(concept)

\* the graph was used by a call, and it has a chain of four prerequisite
\* edges (dfs, graph, tree, linked_list, array) and prerequisites that are
\* no concepts of it
C18_Witness ==
    /\ pc = "generated"
    /\ generated.concepts_to_learn # << >>
    /\ "graph" \in PrerequisitesOf("dfs") /\ "tree" \in PrerequisitesOf("graph")
    /\ "linked_list" \in PrerequisitesOf("tree") /\ "array" \in PrerequisitesOf("linked_list")
    /\ "array" \in RequiredBy("dfs")
    /\ "function_basics" \in RequiredBy("dfs") \ GraphConcepts

(***************************************************************************)
(* C19: detection is a test of membership.  Of each of the three tables, a *)
(* tag is in the list of the result exactly when one of its signatures at  *)
(* least is found in the source with the case of the letters ignored       *)
(* (a keyword as a part of the lowered text, an expression by a search     *)
(* that ignores case), and no tag is in a list twice, however many of its  *)
(* signatures are found and however often.                                 *)
(***************************************************************************)
\* the keywords that are parts of the lowered text of a statement, and the
\* expressions a search that ignores case finds in it
KeywordsFound ==
    [s \in Statements |->
        {keyword \in UNION {Range(PatternChecks[r].patterns) : r \in DOMAIN PatternChecks} :
            Contains(Lower(Chars[keyword]), Lower(Chars[s]))}]

ExpressionsFound ==
    [s \in Statements |-> {pattern \in DOMAIN Compiled : ReSearchIgnoreCase(pattern, Chars[s])}]

KeywordOccurs(keyword, lines) ==
    \E i \in DOMAIN lines : keyword \in KeywordsFound[lines[i].stmt]

ExpressionOccurs(pattern, lines) ==
    \E i \in DOMAIN lines : pattern \in ExpressionsFound[lines[i].stmt]

TaggedWhenFound(table, occurs(_, _), tags) ==
    \A r \in DOMAIN table :
        InList(table[r].name, tags)
            <=> \E k \in DOMAIN table[r].patterns : occurs(table[r].patterns[k], code)

Once(tags) == \A i, j \in DOMAIN tags : tags[i] = tags[j] => i = j

\* the signatures of a row that are found, each counted with its lines
Findings(row, occurs(_, _)) ==
    {<<k, i>> \in (DOMAIN row.patterns) \X (DOMAIN code) : occurs(row.patterns[k], <<code[i]>>)}

C19_DetectionIsMembership ==
    pc = "returned" =>
        /\ TaggedWhenFound(PatternChecks, KeywordOccurs, analysis.patterns)
        /\ TaggedWhenFound(analyzer.algorithm_patterns, ExpressionOccurs, analysis.algorithms)
        /\ TaggedWhenFound(analyzer.data_structure_patterns, ExpressionOccurs,
                           analysis.data_structures)
        /\ Once(analysis.patterns) /\ Once(analysis.algorithms)
        /\ Once(analysis.data_structures)

\* a keyword written in capitals is found, and tags of which signatures
\* are found twice or more are in their lists once
C19_Witness ==
    /\ pc = "returned"
    /\ \E i \in DOMAIN code : code[i].stmt = StmtUpper
    /\ InList("two_pointers", analysis.patterns)
    /\ Cardinality(Findings(PatternChecks[1], KeywordOccurs)) >= 2
    /\ \E r \in DOMAIN analyzer.data_structure_patterns :
          /\ Cardinality(Findings(analyzer.data_structure_patterns[r], ExpressionOccurs)) >= 2
          /\ InList(analyzer.data_structure_patterns[r].name, analysis.data_structures)

(***************************************************************************)
(* C20: for a registered learner, each of array, linked_list, hash_table   *)
(* and recursion is reported as a fundamental gap of severity high exactly *)
(* when it is neither among the data structures and algorithms of the      *)
(* analysis nor among the concepts the learner's ten latest submissions    *)
(* record (their pattern tags and their identified algorithms); the four   *)
(* are decided each on its own.                                            *)
(***************************************************************************)
RecentRows(user_id) ==
    LET own == SelectSeq(submissions, LAMBDA row : row.user_id = user_id)
    IN  SubSeq(own, Max(1, Len(own) - RecentSubmissions + 1), Len(own))

RecordedConcepts(user_id) ==
    UNION {RowConcepts(RecentRows(user_id)[i]) : i \in DOMAIN RecentRows(user_id)}

DetectedConcepts == Range(analysis.data_structures) \cup Range(analysis.algorithms)

FundamentalGapOf(concept) ==
    \E i \in DOMAIN generated.knowledge_gaps :
        /\ generated.knowledge_gaps[i].concept = concept
        /\ generated.knowledge_gaps[i].category = "fundamental"
        /\ generated.knowledge_gaps[i].severity = "high"

C20_FundamentalGaps ==
    (pc = "generated" /\ ~Anonymous) =>
        \A k \in DOMAIN fundamental_concepts :
            FundamentalGapOf(fundamental_concepts[k])
                <=> /\ fundamental_concepts[k] \notin DetectedConcepts
                    /\ fundamental_concepts[k] \notin RecordedConcepts(call.user_id)

\* one submission with the pattern tags array and linked_list and an analysis
\* that has hash_table: recursion alone is a fundamental gap
C20_Witness ==
    /\ pc = "generated" /\ ~Anonymous
    /\ RecordedConcepts(call.user_id) = {"array", "linked_list"}
    /\ "hash_table" \in DetectedConcepts
    /\ FundamentalGapOf("recursion")
    /\ ~FundamentalGapOf("array") /\ ~FundamentalGapOf("linked_list")
    /\ ~FundamentalGapOf("hash_table")

(***************************************************************************)
(* C21: for a gap whose concept has a prerequisite the learner has not     *)
(* mastered, what is recommended for the gap is its unmet prerequisites    *)
(* and nothing else, each with priority high: a mastered prerequisite is   *)
(* not recommended and every unmet one is.  Stated on the calls with one   *)
(* gap, where the list returned is what was built for that gap.            *)
(***************************************************************************)
RecommendedConcepts == {recommendations[r].concept : r \in DOMAIN recommendations}

C21_UnmetPrerequisitesExactly ==
    (pc = "recommended" /\ Len(call.knowledge_gaps) = 1) =>
        LET unmet == Unmet(call.user_id, call.knowledge_gaps[1].concept)
        IN  unmet # {} =>
              /\ RecommendedConcepts = unmet
              /\ \A r \in DOMAIN recommendations : recommendations[r].priority = "high"

\* the only gap is stack, whose one prerequisite linked_list the learner has
\* not mastered: linked_list is recommended with priority high, alone
C21_Witness ==
    /\ pc = "recommended"
    /\ Len(call.knowledge_gaps) = 1
    /\ call.knowledge_gaps[1].concept = "stack"
    /\ Unmet(call.user_id, "stack") = {"linked_list"}
    /\ Len(recommendations) = 1
    /\ recommendations[1].concept = "linked_list"
    /\ recommendations[1].priority = "high"

(***************************************************************************)
(* C22: a concept whose prerequisites the learner has all mastered is      *)
(* recommended with priority high when the severity of its gap is high and *)
(* its importance is more than 0.8, with priority medium when the severity *)
(* is high or the importance is more than 0.7, and with priority low       *)
(* otherwise.  Importances are in tenths.                                  *)
(***************************************************************************)
\* the entries for the concept of a gap itself have its prerequisites
ForConcept(rec) == "prerequisites" \in DOMAIN rec

PriorityByRule(severity, importance) ==
    IF severity = "high" /\ importance > 8 THEN "high"
    ELSE IF severity = "high" \/ importance > 7 THEN "medium"
    ELSE "low"

GapOf(rec) ==
    CHOOSE g \in DOMAIN call.knowledge_gaps :
        /\ call.knowledge_gaps[g].concept = rec.concept
        /\ call.knowledge_gaps[g].category = rec.category

C22_PriorityRule ==
    pc = "recommended" =>
        /\ \A r \in DOMAIN recommendations :
              ForConcept(recommendations[r]) =>
                  /\ Unmet(call.user_id, recommendations[r].concept) = {}
                  /\ recommendations[r].priority =
                        PriorityByRule(call.knowledge_gaps[GapOf(recommendations[r])].severity,
                                       find_concept_in_graph(recommendations[r].concept).importance)
        /\ \A g \in DOMAIN call.knowledge_gaps :
              LET gap == call.knowledge_gaps[g]
              IN  (/\ find_concept_in_graph(gap.concept) # None
                   /\ Unmet(call.user_id, gap.concept) = {}
                   /\ Len(BuiltForCall) <= TopRecommendations) =>
                      \E r \in DOMAIN recommendations :
                          /\ ForConcept(recommendations[r])
                          /\ recommendations[r].concept = gap.concept
                          /\ recommendations[r].category = gap.category

\* one call gives the three priorities: array as a fundamental gap (high),
\* array as a pattern gap (medium) and stack as a pattern gap (low), the
\* learner having mastered linked_list
C22_Witness ==
    /\ pc = "recommended"
    /\ \A p \in {"high", "medium", "low"} :
          \E r \in DOMAIN recommendations :
              ForConcept(recommendations[r]) /\ recommendations[r].priority = p
    /\ \E r \in DOMAIN recommendations :
          /\ recommendations[r].concept = "stack"
          /\ recommendations[r].priority = "low"

(***************************************************************************)
(* C23: a recommended concept gets two resources at most, and no resource  *)
(* attached is more than one level above the skill level of the learner    *)
(* in the order beginner, intermediate, advanced.  A difficulty or a skill *)
(* level that is none of the three counts as intermediate, as in the code. *)
(***************************************************************************)
LevelOf(difficulty) ==
    IF difficulty = "beginner" THEN 0 ELSE IF difficulty = "advanced" THEN 2 ELSE 1

EntriesFor(list, concept) ==
    Cardinality({i \in DOMAIN list : list[i].concept = concept})

C23_ResourcesSuitable ==
    pc = "resources" =>
        /\ \A r \in DOMAIN recommendations :
              EntriesFor(generated.recommended_resources, recommendations[r].concept)
                  <= 2 * EntriesFor(recommendations, recommendations[r].concept)
        /\ \A k \in DOMAIN generated.recommended_resources :
              LevelOf(generated.recommended_resources[k].difficulty)
                  <= LevelOf(skill_level_of(call.user_id)) + 1

\* a beginner is recommended array alone and gets its two resources, one
\* for beginners and one called easy
C23_Witness ==
    /\ pc = "resources"
    /\ skill_level_of(call.user_id) = "beginner"
    /\ Len(recommendations) = 1
    /\ recommendations[1].concept = "array"
    /\ Len(generated.recommended_resources) = 2
    /\ generated.recommended_resources[1].difficulty = "beginner"
    /\ generated.recommended_resources[2].difficulty = "easy"

(***************************************************************************)
(* C24: on a python source that parses, the counter of loop nesting goes   *)
(* up on entering a loop and down on leaving it: after the walk it is 0    *)
(* again and its maximum d is the largest number of loops nested in one    *)
(* another.  The time complexity is O(1) for d = 0; for d = 1 it is        *)
(* O(n log n) when sort, heappush or heappop is in the lowered source and  *)
(* O(n) when not; O(n^2) for d = 2; O(n^d) for d above 2.                  *)
(***************************************************************************)
StructuralPath == pc = "returned" /\ IsPython /\ ast_parse(code).outcome = "ok"

\* the statements with sort, heappush or heappop in their lowered text
SortingStatements ==
    {s \in Statements :
        \E word \in {"sort", "heappush", "heappop"} : Contains(Chars[word], Lower(Chars[s]))}

ClassOfDepth(d, sorting) ==
    IF d = 0 THEN "O(1)"
    ELSE IF d = 1 THEN IF sorting THEN "O(n log n)" ELSE "O(n)"
    ELSE IF d = 2 THEN "O(n^2)"
    ELSE IF d = 3 THEN "O(n^3)"
    ELSE "O(n^4)"

C24_NestingToTimeComplexity ==
    StructuralPath =>
        /\ LoopCounter(code).current_nesting = 0
        /\ LoopCounter(code).max_nesting = DeepestLoopNesting(code)
        /\ analysis.time_complexity =
              ClassOfDepth(DeepestLoopNesting(code),
                           \E i \in DOMAIN code : code[i].stmt \in SortingStatements)

\* three loops in one another
C24_Witness ==
    /\ StructuralPath
    /\ DeepestLoopNesting(code) = 3
    /\ analysis.time_complexity = "O(n^3)"

(***************************************************************************)
(* C25: on a python source that parses, space_complexity is O(n) exactly   *)
(* when dict, set or list is in the source or the source has recursion (a  *)
(* call of a function from its own body), and O(1) otherwise; a source     *)
(* without such a word whose calls are calls of other functions gets O(1). *)
(***************************************************************************)
\* the statements with dict, set or list in their text
ContainerStatements ==
    {s \in Statements :
        \E word \in {"dict", "set", "list"} : Contains(Chars[word], Chars[s])}

HasContainerSignature(lines) == \E i \in DOMAIN lines : lines[i].stmt \in ContainerStatements

\* solve() on a line of the body of def solve():
HasRecursiveCall(lines) ==
    \E i \in DOMAIN lines : \E j \in 1..i - 1 :
        /\ lines[i].stmt = StmtCall
        /\ lines[j].stmt = StmtDef
        /\ \A k \in j + 1..i : lines[k].indent > lines[j].indent

C25_SpaceComplexity ==
    StructuralPath =>
        analysis.space_complexity =
            IF HasContainerSignature(code) \/ HasRecursiveCall(code) THEN "O(n)" ELSE "O(1)"

\* def solve(): with solve() as its body, and none of the three words
C25_Witness ==
    /\ StructuralPath
    /\ HasRecursiveCall(code)
    /\ ~HasContainerSignature(code)
    /\ analysis.space_complexity = "O(n)"

(***************************************************************************)
(* C26: whenever analyze_code returns by the generic path, because the     *)
(* language is not python or because the parse failed, the issues of the   *)
(* result have an entry that records it, and the counts of functions,      *)
(* loops and conditionals and the cyclomatic complexity are zero (a count  *)
(* that is not among the metrics reads as zero).                           *)
(***************************************************************************)
FallbackPath == pc = "returned" /\ (~IsPython \/ ParseFails)

StructuralCounts == {"functions", "loops", "conditionals", "cyclomatic_complexity"}

C26_FallbackRecorded ==
    FallbackPath =>
        /\ Len(analysis.issues) >= 1
        /\ \A name \in StructuralCounts : Get(analysis.metrics, name, 0) = 0

\* a python source with a loop that does not parse: the issue of the syntax
\* error is the only one and no loop is counted
C26_Witness ==
    /\ FallbackPath
    /\ IsPython
    /\ \E i \in DOMAIN code : Kind(code[i]) = "For"
    /\ Len(analysis.issues) = 1
    /\ analysis.issues[1].msg = "Syntax error"
    /\ \A name \in StructuralCounts : Get(analysis.metrics, name, 0) = 0

(***************************************************************************)
(* C27: for the empty source, in every language, the counts of lines,      *)
(* functions, loops and conditionals of the result are 0, time_complexity  *)
(* and space_complexity are both O(1), and both scores are 100.            *)
(***************************************************************************)
EmptySource == pc = "returned" /\ code = << >>

C27_EmptySource ==
    EmptySource =>
        /\ \A name \in {"lines_of_code", "functions", "loops", "conditionals"} :
              Get(analysis.metrics, name, 0) = 0
        /\ analysis.time_complexity = "O(1)"
        /\ analysis.space_complexity = "O(1)"
        /\ analysis.complexity_score = 100
        /\ analysis.quality_score = 100

\* the empty python source: no function, loop or conditional, O(1) twice
\* and both scores 100
C27_Witness ==
    /\ EmptySource
    /\ IsPython
    /\ \A name \in {"functions", "loops", "conditionals"} : analysis.metrics[name] = 0
    /\ analysis.time_complexity = "O(1)"
    /\ analysis.space_complexity = "O(1)"
    /\ analysis.complexity_score = 100
    /\ analysis.quality_score = 100

(***************************************************************************)
(* C28: complexity_score is max(0, 100 - classPenalty - cyclomaticPenalty  *)
(* - 5 * issues).  classPenalty is 0 for O(1) and O(log n), 5 for O(n), 15 *)
(* for O(n log n), 30 for O(n^2), 50 for O(2^n) and 20 for any other       *)
(* class; cyclomaticPenalty is min(30, 3 * (cyclomatic - 10)) above a      *)
(* cyclomatic complexity of 10 and 0 up to it, an absent cyclomatic        *)
(* complexity counting as 0.                                               *)
(***************************************************************************)
ClassPenalty(class) ==
    IF class \in {"O(1)", "O(log n)"} THEN 0
    ELSE IF class = "O(n)" THEN 5
    ELSE IF class = "O(n log n)" THEN 15
    ELSE IF class = "O(n^2)" THEN 30
    ELSE IF class = "O(2^n)" THEN 50
    ELSE 20

CyclomaticOf(a) ==
    IF "cyclomatic_complexity" \in DOMAIN a.metrics THEN a.metrics.cyclomatic_complexity ELSE 0

CyclomaticPenalty(cyclomatic) ==
    IF cyclomatic > 10 THEN Min(30, 3 * (cyclomatic - 10)) ELSE 0

C28_ComplexityScoreFormula ==
    pc = "scored" =>
        analysis.complexity_score =
            Max(0, 100 - ClassPenalty(analysis.time_complexity)
                       - CyclomaticPenalty(CyclomaticOf(analysis))
                       - 5 * Len(analysis.issues))

\* a cubic class (penalty 20), a cyclomatic complexity whose penalty is
\* capped, and one issue: 100 - 20 - 30 - 5
C28_Witness ==
    /\ pc = "scored"
    /\ analysis.time_complexity = "O(n^3)"
    /\ 3 * (CyclomaticOf(analysis) - 10) > 30
    /\ Len(analysis.issues) = 1
    /\ analysis.complexity_score = 45

(***************************************************************************)
(* C30: complexity_score is monotone in the class of time complexity.  Of  *)
(* two analyses with the same cyclomatic complexity and as many issues,    *)
(* the one whose class is higher in the order O(1), O(log n), O(n),        *)
(* O(n log n), O(n^2), O(n^k) with k above 2, never has the higher score.  *)
(***************************************************************************)
ClassRank ==
    ( "O(1)" :> 1 @@ "O(log n)" :> 2 @@ "O(n)" :> 3 @@ "O(n log n)" :> 4
   @@ "O(n^2)" :> 5 @@ "O(n^3)" :> 6 )

\* the score of the analysis that differs from this one in its class alone
ScoreWithClass(class) ==
    calculate_complexity_score([analysis EXCEPT !.time_complexity = class])

C30_ScoreMonotoneInClass ==
    (pc = "scored" /\ analysis.time_complexity \in DOMAIN ClassRank) =>
        \A lower \in DOMAIN ClassRank :
            ClassRank[lower] < ClassRank[analysis.time_complexity] =>
                analysis.complexity_score <= ScoreWithClass(lower)

\* a quadratic analysis scores 70, below the 85, 95 and 100 of the same
\* analysis with the lower classes
C30_Witness ==
    /\ pc = "scored"
    /\ analysis.time_complexity = "O(n^2)"
    /\ analysis.complexity_score = 70
    /\ ScoreWithClass("O(n log n)") = 85
    /\ ScoreWithClass("O(n)") = 95
    /\ ScoreWithClass("O(1)") = 100

(***************************************************************************)
(* C29: the skill level of a learner only moves forward.  Over any tracked *)
(* sessions, a step leaves the level of every learner as it is or moves it *)
(* one step on, beginner to intermediate or intermediate to advanced; it   *)
(* is never lowered, advanced is never left, and a metric                  *)
(* skill_level_progression is recorded only in a step that moves the level *)
(* of that learner on.                                                     *)
(***************************************************************************)
LevelRank == ("beginner" :> 1 @@ "intermediate" :> 2 @@ "advanced" :> 3)

Progressions(list, user_id) ==
    Len(SelectSeq(list, LAMBDA m : m.user_id = user_id
                                      /\ m.metric_name = "skill_level_progression"))

LevelMovesForward ==
    /\ DOMAIN users' = DOMAIN users
    /\ \A u \in DOMAIN users :
          /\ LevelRank[users'[u].skill_level] - LevelRank[users[u].skill_level] \in {0, 1}
          /\ Progressions(metrics', u) > Progressions(metrics, u) =>
                LevelRank[users'[u].skill_level] = LevelRank[users[u].skill_level] + 1
    /\ \A u \in UserIds \ DOMAIN users : Progressions(metrics', u) = Progressions(metrics, u)

C29_SkillLevelForward == [][LevelMovesForward]_vars

\* learner 1 has moved from beginner to intermediate and on to advanced in
\* two sessions, each step with its metric
C29_Witness ==
    /\ users[1].skill_level = "advanced"
    /\ Progressions(metrics, 1) = 2
    /\ Sessions = 2
====
